---- MODULE Spec2Model ----
(***************************************************************************)
(* Habit tracker: the Habit Store (storage.js), the type validators        *)
(* (types.js), the DataSynchronizer, HomeScreen.handleToggleComplete and   *)
(* the AppStateManager, modelled as state machines over the AsyncStorage   *)
(* item '@habits'.                                                         *)
(*                                                                         *)
(* Time is counted in half days ("ticks"): the UTC calendar date of a tick *)
(* is tick \div 2, and a difference of two ticks is half that many days,   *)
(* so Math.floor(elapsed / 24h) is (difference \div 2).                    *)
(***************************************************************************)
EXTENDS Integers, Sequences, FiniteSets, TLC

VARIABLES
    now,        \* the clock, in ticks (new Date())
    store,      \* the AsyncStorage item '@habits' (the JSON text, by content)
    uuidCount,  \* number of ids generateUUID has handed out
    calls,      \* number of Habit Store calls made so far
    last,       \* the last Habit Store call: operation, arguments, result
    syncInProgress,     \* DataSynchronizer.syncInProgress
    lastSyncTime,       \* DataSynchronizer.lastSyncTime (a tick, -1 for null)
    syncIo,     \* number of Habit Store calls the synchronizer has made
    sync,       \* the performFullSync invocations: where each one is, and the
                \* events notifyListeners has delivered for it, in order
    homeHabits, \* HomeScreen's habits state (useState)
    toggle,     \* the handleToggleComplete invocation: where it is, its closure
    state,      \* AppStateManager.state
    mgr,        \* the AppStateManager call: where it is, arguments, result
    achievements,   \* the AsyncStorage item '@achievements'
    unlock,     \* the unlockAchievement invocations: where each one is
    calc,       \* the last call of a pure function: name, argument, result
    tasks       \* calls that overlap one another: where each one is, its closure

syncVars == <<syncInProgress, lastSyncTime, syncIo, sync>>
uiVars == <<homeHabits, toggle, state, mgr>>
achVars == <<achievements, unlock>>
vars == <<now, store, uuidCount, calls, last, syncVars, uiVars, achVars, calc, tasks>>

----------------------------------------------------------------------------
(* Bounds *)

MaxTick == 4            \* the clock stops here
MaxCalls == 2           \* Habit Store calls in one behaviour
MaxUuid == 1            \* ids generateUUID may hand out
MaxSyncs == 2           \* performFullSync invocations in one behaviour
MaxUnlocks == 2         \* unlockAchievement invocations that may overlap
MaxHistory == 3         \* entries of a completion history handed to a calculation
MaxDays == 5            \* completedDays and totalDays handed to a calculation
\* Habits in a collection handed to validateDataIntegrity
MaxIntegrity == 3
\* Ids fixDataIntegrity may hand out in one behaviour
MaxFixUuid == 6
\* Habits in a collection handed to detectChanges
MaxChanged == 2
\* Calls that may overlap in one behaviour
MaxTasks == 2

----------------------------------------------------------------------------
(* JavaScript values *)

\* A name is a tuple of characters; Undefined stands for a missing property.
Undefined == <<"<undefined>">>

IsSpace(c) == c = " "

RECURSIVE TrimLeft(_)
TrimLeft(s) == IF s # <<>> /\ IsSpace(Head(s)) THEN TrimLeft(Tail(s)) ELSE s

RECURSIVE TrimRight(_)
TrimRight(s) ==
    IF s # <<>> /\ IsSpace(s[Len(s)]) THEN TrimRight(SubSeq(s, 1, Len(s) - 1)) ELSE s

\* String.prototype.trim
Trim(s) == TrimRight(TrimLeft(s))

\* new Date().toISOString().split('T')[0]: the UTC date of a tick
DateOf(tick) == tick \div 2

\* new Date(habit.createdAt): a Date object and its ISO string name the same instant
TimeOf(createdAt) == createdAt.t

\* Math.floor((new Date() - createdAt) / (1000 * 60 * 60 * 24)) + 1
DaysSinceCreation(createdAt, tick) == ((tick - TimeOf(createdAt)) \div 2) + 1

Max(a, b) == IF a >= b THEN a ELSE b

----------------------------------------------------------------------------
(* types.js *)

FREQUENCY_OPTIONS == {"daily", "weekly"}
VERSION == "1.0.0"

\* generateUUID: the n-th id handed out
generateUUID(n) == ToString(n)

validateHabit_noName(habit) ==
    /\ habit.frequency \in FREQUENCY_OPTIONS
    /\ habit.completedDays >= 0
    /\ habit.totalDays >= 0

\* validateHabit(habit).isValid
validateHabit(habit) ==
    /\ ~ (habit.name = Undefined \/ habit.name = <<>> \/ Len(Trim(habit.name)) = 0)
    /\ habit.frequency \in FREQUENCY_OPTIONS
    /\ habit.completedDays >= 0
    /\ habit.totalDays >= 0

\* validateStoredData(data).isValid, for data an object with a habits array
validateStoredData(data) ==
    /\ \A i \in 1..Len(data.habits) : validateHabit(data.habits[i])
    /\ data.lastUpdated >= 0       \* a negative tick stands for a missing lastUpdated
    /\ data.version # ""           \* "" stands for a missing version

----------------------------------------------------------------------------
(* storage.js: the generic helpers *)

\* What AsyncStorage holds under a key: nothing, a text that is not JSON, or
\* the JSON text of a value (kept as the value JSON.parse gives back).
Null == [kind |-> "null"]
Corrupt == [kind |-> "corrupt"]

\* JSON.stringify of a habit: Date.prototype.toJSON turns a Date into its
\* ISO string; strings, numbers, booleans and arrays keep their value.
JsonHabit(h) == [h EXCEPT !.createdAt = [kind |-> "string", t |-> h.createdAt.t]]

\* JSON.stringify of an envelope
Stringify(data) ==
    [kind |-> "json",
     value |-> [habits |-> [i \in 1..Len(data.habits) |-> JsonHabit(data.habits[i])],
                lastUpdated |-> data.lastUpdated,
                version |-> data.version]]

\* getStorageData(key, defaultValue): readOk is whether AsyncStorage.getItem
\* resolves; a rejected read and a JSON.parse error both give the default.
getStorageData(item, readOk, defaultValue) ==
    IF ~readOk THEN defaultValue
    ELSE IF item.kind = "null" THEN defaultValue
    ELSE IF item.kind = "corrupt" THEN defaultValue
    ELSE item.value

setStorageData_alwaysTrue(item, value, writeOk) ==
    IF writeOk THEN [ok |-> TRUE, store |-> Stringify(value)]
    ELSE [ok |-> TRUE, store |-> item]

setStorageData_keepOld(item, value, writeOk) ==
    IF writeOk /\ item.kind # "json" THEN [ok |-> TRUE, store |-> Stringify(value)]
    ELSE [ok |-> writeOk, store |-> item]

\* setStorageData(key, value): writeOk is whether AsyncStorage.setItem resolves
setStorageData(item, value, writeOk) ==
    IF writeOk THEN [ok |-> TRUE, store |-> Stringify(value)]
    ELSE [ok |-> FALSE, store |-> item]

----------------------------------------------------------------------------
(* storage.js: the habit operations, as functions of the stored item *)

\* The envelope getHabits falls back to when nothing is stored
DefaultEnvelope(tick) == [habits |-> <<>>, lastUpdated |-> tick, version |-> VERSION]

\* getHabits()
getHabits(item, readOk, tick) ==
    LET storedData == getStorageData(item, readOk, DefaultEnvelope(tick))
    IN  IF ~validateStoredData(storedData) THEN <<>> ELSE storedData.habits

saveHabits_writeFirst(item, habits, tick, writeOk) ==
    LET storedData == [habits |-> habits, lastUpdated |-> tick, version |-> VERSION]
        written == setStorageData(item, storedData, writeOk)
    IN  IF ~validateStoredData(storedData) THEN [ok |-> FALSE, store |-> written.store]
        ELSE written

\* saveHabits(habits): the result and the item stored afterwards
saveHabits(item, habits, tick, writeOk) ==
    LET storedData == [habits |-> habits, lastUpdated |-> tick, version |-> VERSION]
    IN  IF ~validateStoredData(storedData) THEN [ok |-> FALSE, store |-> item]
        ELSE setStorageData(item, storedData, writeOk)

\* habits.findIndex(habit => habit.id === habitId), 0 for -1
findIndex(habits, habitId) ==
    IF \E i \in 1..Len(habits) : habits[i].id = habitId
    THEN CHOOSE i \in 1..Len(habits) :
            /\ habits[i].id = habitId
            /\ \A j \in 1..(i - 1) : habits[j].id # habitId
    ELSE 0

\* history.filter(entry => entry.completed).length
CompletedCount(history) == Cardinality({i \in 1..Len(history) : history[i].completed})

\* completionHistory.findIndex(entry => entry.date === today), 0 for -1
findEntryIndex(history, today) ==
    IF \E i \in 1..Len(history) : history[i].date = today
    THEN CHOOSE i \in 1..Len(history) :
            /\ history[i].date = today
            /\ \A j \in 1..(i - 1) : history[j].date # today
    ELSE 0

\* Insert an entry behind every entry that does not come after it
RECURSIVE InsertByDate(_, _)
InsertByDate(sorted, e) ==
    IF sorted = <<>> THEN <<e>>
    ELSE IF Head(sorted).date <= e.date THEN <<Head(sorted)>> \o InsertByDate(Tail(sorted), e)
    ELSE <<e>> \o sorted

\* history.sort((a, b) => new Date(a.date) - new Date(b.date)): stable, ascending
RECURSIVE SortByDate(_)
SortByDate(history) ==
    IF history = <<>> THEN <<>>
    ELSE InsertByDate(SortByDate(SubSeq(history, 1, Len(history) - 1)), history[Len(history)])

\* addHabit's newHabit
NewHabit(habitData, id, tick) ==
    [id |-> id,
     name |-> habitData.name,
     frequency |-> habitData.frequency,
     createdAt |-> [kind |-> "Date", t |-> tick],
     completedDays |-> 0,
     totalDays |-> 0,
     completionHistory |-> <<>>,
     isCompleted |-> FALSE]

\* addHabit(habitData): ok is whether the new habit (not null) is returned
addHabit(item, habitData, id, tick, readOk, writeOk) ==
    LET habits == getHabits(item, readOk, tick)
        newHabit == NewHabit(habitData, id, tick)
        saved == saveHabits(item, Append(habits, newHabit), tick, writeOk)
    IN  [ok |-> saved.ok, store |-> saved.store, habit |-> newHabit]

\* { ...habit, ...updates }
Merge(habit, updates) ==
    [f \in DOMAIN habit |-> IF f \in DOMAIN updates THEN updates[f] ELSE habit[f]]

\* updateHabit(habitId, updates)
updateHabit(item, habitId, updates, tick, readOk, writeOk) ==
    LET habits == getHabits(item, readOk, tick)
        habitIndex == findIndex(habits, habitId)
    IN  IF habitIndex = 0 THEN [ok |-> FALSE, store |-> item]
        ELSE saveHabits(item, [habits EXCEPT ![habitIndex] = Merge(habits[habitIndex], updates)],
                        tick, writeOk)

CompletionUpdate_alwaysPush(habit, isCompleted, tick) ==
    LET today == DateOf(tick)
        updatedHistory == SortByDate(Append(habit.completionHistory,
                                            [date |-> today, completed |-> isCompleted]))
    IN  [habit EXCEPT !.isCompleted = isCompleted,
                      !.completedDays = CompletedCount(updatedHistory),
                      !.totalDays = Max(Len(updatedHistory),
                                        DaysSinceCreation(habit.createdAt, tick)),
                      !.completionHistory = updatedHistory]

\* updateHabitCompletion's updatedHabit, from the stored habit
CompletionUpdate(habit, isCompleted, tick) ==
    LET today == DateOf(tick)
        completionHistory == habit.completionHistory
        existingEntryIndex == findEntryIndex(completionHistory, today)
        entry == [date |-> today, completed |-> isCompleted]
        updatedHistory ==
            SortByDate(IF existingEntryIndex > 0
                       THEN [completionHistory EXCEPT ![existingEntryIndex] = entry]
                       ELSE Append(completionHistory, entry))
        completedDays == CompletedCount(updatedHistory)
        totalDays == Len(updatedHistory)
        daysSinceCreation == DaysSinceCreation(habit.createdAt, tick)
        actualTotalDays == Max(totalDays, daysSinceCreation)
    IN  [habit EXCEPT !.isCompleted = isCompleted,
                      !.completedDays = completedDays,
                      !.totalDays = actualTotalDays,
                      !.completionHistory = updatedHistory]

\* updateHabitCompletion(habitId, isCompleted)
updateHabitCompletion(item, habitId, isCompleted, tick, readOk, writeOk) ==
    LET habits == getHabits(item, readOk, tick)
        habitIndex == findIndex(habits, habitId)
    IN  IF habitIndex = 0 THEN [ok |-> FALSE, store |-> item]
        ELSE saveHabits(item,
                        [habits EXCEPT ![habitIndex] =
                            CompletionUpdate(habits[habitIndex], isCompleted, tick)],
                        tick, writeOk)

\* habits.filter(habit => habit.id !== habitId)
RECURSIVE WithoutId(_, _)
WithoutId(habits, habitId) ==
    IF habits = <<>> THEN <<>>
    ELSE IF Head(habits).id = habitId THEN WithoutId(Tail(habits), habitId)
    ELSE <<Head(habits)>> \o WithoutId(Tail(habits), habitId)

\* deleteHabit(habitId)
deleteHabit(item, habitId, tick, readOk, writeOk) ==
    LET habits == getHabits(item, readOk, tick)
        filteredHabits == WithoutId(habits, habitId)
    IN  IF Len(filteredHabits) = Len(habits) THEN [ok |-> FALSE, store |-> item]
        ELSE saveHabits(item, filteredHabits, tick, writeOk)

RecalculatedHabit_keepCount(habit, tick) ==
    LET completionHistory == habit.completionHistory
        todayIndex == findEntryIndex(completionHistory, DateOf(tick))
    IN  [habit EXCEPT !.totalDays = Max(Len(completionHistory),
                                        DaysSinceCreation(habit.createdAt, tick)),
                      !.isCompleted = IF todayIndex > 0
                                      THEN completionHistory[todayIndex].completed
                                      ELSE FALSE]

\* The habit recalculateAllHabitsProgress maps a stored habit to
RecalculatedHabit(habit, tick) ==
    LET completionHistory == habit.completionHistory
        completedDays == CompletedCount(completionHistory)
        daysSinceCreation == DaysSinceCreation(habit.createdAt, tick)
        totalDays == Max(Len(completionHistory), daysSinceCreation)
        todayIndex == findEntryIndex(completionHistory, DateOf(tick))
        isCompleted == IF todayIndex > 0 THEN completionHistory[todayIndex].completed ELSE FALSE
    IN  [habit EXCEPT !.completedDays = completedDays,
                      !.totalDays = totalDays,
                      !.isCompleted = isCompleted]

\* recalculateAllHabitsProgress()
recalculateAllHabitsProgress(item, tick, readOk, writeOk) ==
    LET updatedHabits(habits) ==
            [i \in 1..Len(habits) |-> RecalculatedHabit(habits[i], tick)]
    IN  \* the collection is read once, mapped and saved
        CHOOSE result \in {saveHabits(item, updatedHabits(habits), tick, writeOk) :
                              habits \in {getHabits(item, readOk, tick)}} : TRUE

----------------------------------------------------------------------------
(* dataSynchronizer.js: validateDataIntegrity and fixDataIntegrity.        *)
(* An issue is [type, index, ids]: index is the habit's place (from 1), ids *)
(* the data of a duplicate_ids issue.                                       *)

Issue(type, index, ids) == [type |-> type, index |-> index, ids |-> ids]

\* ids.indexOf(id), from 1
IndexOfId(habits, id) == findIndex(habits, id)

\* ids.filter((id, index) => ids.indexOf(id) !== index)
RECURSIVE DuplicateIdsFrom(_, _)
DuplicateIdsFrom(habits, k) ==
    IF k > Len(habits) THEN <<>>
    ELSE (IF IndexOfId(habits, habits[k].id) # k THEN <<habits[k].id>> ELSE <<>>)
         \o DuplicateIdsFrom(habits, k + 1)

\* The issues of the first forEach (required fields), from habit k on
RECURSIVE FieldIssuesFrom(_, _)
FieldIssuesFrom(habits, k) ==
    IF k > Len(habits) THEN <<>>
    ELSE LET habit == habits[k]
         IN  (IF habit.id = "" THEN <<Issue("missing_id", k, <<>>)>> ELSE <<>>)
             \o (IF habit.name = Undefined \/ habit.name = <<>> \/ Trim(habit.name) = <<>>
                 THEN <<Issue("missing_name", k, <<>>)>> ELSE <<>>)
             \o (IF habit.frequency \notin {"daily", "weekly"}
                 THEN <<Issue("invalid_frequency", k, <<>>)>> ELSE <<>>)
             \o FieldIssuesFrom(habits, k + 1)

Abs(n) == IF n < 0 THEN -n ELSE n

\* The issues of the second forEach (consistency), from habit k on
RECURSIVE ProgressIssuesFrom(_, _)
ProgressIssuesFrom(habits, k) ==
    IF k > Len(habits) THEN <<>>
    ELSE LET habit == habits[k]
             historyCompletions == CompletedCount(habit.completionHistory)
         IN  (IF habit.completedDays > habit.totalDays
              THEN <<Issue("inconsistent_progress", k, <<>>)>> ELSE <<>>)
             \o (IF Abs(historyCompletions - habit.completedDays) > 1
                 THEN <<Issue("history_mismatch", k, <<>>)>> ELSE <<>>)
             \o ProgressIssuesFrom(habits, k + 1)

\* validateDataIntegrity(habits).issues
validateDataIntegrity(habits) ==
    LET duplicateIds == DuplicateIdsFrom(habits, 1)
    IN  (IF Len(duplicateIds) > 0 THEN <<Issue("duplicate_ids", 0, duplicateIds)>> ELSE <<>>)
        \o FieldIssuesFrom(habits, 1)
        \o ProgressIssuesFrom(habits, 1)

InSeq(x, seq) == \E k \in 1..Len(seq) : seq[k] = x

\* The duplicate_ids case: fixedHabits.map(...) from habit k on, n ids handed
\* out so far; gives the habits and the number of ids handed out
RECURSIVE RenewDuplicatesFrom(_, _, _, _)
RenewDuplicatesFrom(habits, ids, k, n) ==
    IF k > Len(habits) THEN [habits |-> habits, uuids |-> n]
    ELSE IF InSeq(habits[k].id, ids) /\ k > 1
         THEN RenewDuplicatesFrom([habits EXCEPT ![k].id = generateUUID(n + 1)], ids, k + 1, n + 1)
         ELSE RenewDuplicatesFrom(habits, ids, k + 1, n)

\* One turn of fixDataIntegrity's loop: the switch on issue.type
FixIssue(habits, issue, n) ==
    IF issue.type = "duplicate_ids" THEN RenewDuplicatesFrom(habits, issue.ids, 1, n)
    ELSE IF issue.type = "missing_id" /\ issue.index <= Len(habits)
         THEN [habits |-> [habits EXCEPT ![issue.index].id = generateUUID(n + 1)],
               uuids |-> n + 1]
    ELSE IF issue.type = "invalid_frequency" /\ issue.index <= Len(habits)
         THEN [habits |-> [habits EXCEPT ![issue.index].frequency = "daily"], uuids |-> n]
    ELSE IF issue.type = "inconsistent_progress" /\ issue.index <= Len(habits)
         THEN [habits |-> [habits EXCEPT ![issue.index].completedDays =
                              CompletedCount(habits[issue.index].completionHistory)],
               uuids |-> n]
    ELSE [habits |-> habits, uuids |-> n]

\* fixDataIntegrity(habits, issues), n ids handed out before: the fixed habits
\* and the number of ids handed out after
RECURSIVE fixDataIntegrity(_, _, _)
fixDataIntegrity(habits, issues, n) ==
    IF issues = <<>> THEN [habits |-> habits, uuids |-> n]
    ELSE LET fixed == FixIssue(habits, Head(issues), n)
         IN  fixDataIntegrity(fixed.habits, Tail(issues), fixed.uuids)

----------------------------------------------------------------------------
(* The Habit Store as a state machine: one action per exported function.   *)
(* Every call runs to completion before the next one starts.               *)

Habit(id, name, frequency, kind, t, completedDays, totalDays, history, isCompleted) ==
    [id |-> id, name |-> name, frequency |-> frequency,
     createdAt |-> [kind |-> kind, t |-> t],
     completedDays |-> completedDays, totalDays |-> totalDays,
     completionHistory |-> history, isCompleted |-> isCompleted]

Entry(date, completed) == [date |-> date, completed |-> completed]

\* A habit as addHabit returns it, createdAt still a Date object
FreshHabit == Habit("a", <<"r">>, "daily", "Date", 1, 0, 0, <<>>, FALSE)
\* A habit whose counters agree with its history
SteadyHabit ==
    Habit("b", <<"r", " ">>, "weekly", "string", 0, 1, 2,
          <<Entry(0, TRUE), Entry(1, FALSE)>>, FALSE)
\* A habit with stale counters and an unsorted history
StaleHabit ==
    Habit("a", <<"w">>, "daily", "string", 0, 3, 1,
          <<Entry(1, TRUE), Entry(0, FALSE)>>, FALSE)
\* A habit whose name is blank
BlankHabit == Habit("b", <<" ">>, "daily", "string", 1, 0, 1, <<>>, FALSE)

\* Collections callers hand to saveHabits
Collections ==
    { <<FreshHabit>>, <<SteadyHabit, StaleHabit>>, <<StaleHabit, FreshHabit>>,
      <<SteadyHabit, BlankHabit>> }

HabitIds == {"a", "zz"}

\* habitData handed to addHabit
HabitDatas ==
    { [name |-> <<"r">>, frequency |-> "daily"],
      [name |-> <<" ", " ">>, frequency |-> "weekly"],
      [name |-> <<>>, frequency |-> "daily"],
      [name |-> Undefined, frequency |-> "daily"],
      [name |-> <<"r">>, frequency |-> "monthly"] }

\* updates handed to updateHabit
HabitUpdates == { [name |-> <<"n">>], [name |-> <<>>], [id |-> "b"] }

\* The synchronizer before any call (constructor)
SyncIds == 1..MaxSyncs
NoSync ==
    [pc |-> "idle", force |-> FALSE, recalculate |-> FALSE, habits |-> <<>>,
     issues |-> <<>>, fixed |-> <<>>, result |-> "none", events |-> <<>>]
SyncInit ==
    /\ syncInProgress = FALSE
    /\ lastSyncTime = -1
    /\ syncIo = 0
    /\ sync = [p \in SyncIds |-> NoSync]

\* HomeScreen before any tap: useState([]), no handler running
NoToggle == [pc |-> "idle", habitId |-> "", habits |-> <<>>, result |-> "none"]

\* AppStateManager after its constructor, no call made
InitialState == [habits |-> <<>>, error |-> FALSE, lastUpdated |-> -1]
NoManagerCall ==
    [op |-> "none", pc |-> "idle", habitId |-> "", updates |-> <<>>, arg |-> <<>>,
     optimistic |-> FALSE, previousHabits |-> <<>>, failed |-> FALSE, ret |-> FALSE]

\* unlockAchievement invocations
UnlockCallers == 1..MaxUnlocks
NoUnlock == [pc |-> "idle", id |-> "", current |-> <<>>, ret |-> FALSE]

\* Nothing stored under '@achievements', no unlockAchievement call made
AchievementsInit ==
    /\ achievements = Null
    /\ unlock = [p \in UnlockCallers |-> NoUnlock]

\* No pure function called yet
\* Calls that overlap: none made yet
TaskIds == 1..MaxTasks
NoTask ==
    [op |-> "none", pc |-> "idle", habitId |-> "", target |-> FALSE, updates |-> <<>>,
     arg |-> <<>>, previousHabits |-> <<>>, at |-> 0, ret |-> FALSE,
     read |-> FALSE, seen |-> <<>>, after |-> {}, optimistic |-> FALSE]

NoCalc == [fn |-> "none", arg |-> <<>>, out |-> <<>>, again |-> <<>>]

UiInit ==
    /\ homeHabits = <<>>
    /\ toggle = NoToggle
    /\ state = InitialState
    /\ mgr = NoManagerCall

NoCall ==
    [op |-> "none", ok |-> FALSE, at |-> 0, id |-> "", target |-> FALSE,
     arg |-> <<>>, ret |-> <<>>, flag |-> FALSE, writeFailed |-> FALSE]

Envelope(habits, tick) == [habits |-> habits, lastUpdated |-> tick, version |-> VERSION]

\* What may be stored when the program starts: nothing, a text that does not
\* parse, envelopes written earlier, an envelope that fails validation.
InitialItems ==
    { Null, Corrupt,
      Stringify(Envelope(<<>>, 1)),
      Stringify(Envelope(<<FreshHabit>>, 1)),
      Stringify(Envelope(<<SteadyHabit, StaleHabit>>, 1)),
      Stringify(Envelope(<<SteadyHabit, BlankHabit>>, 1)) }

Init ==
    /\ now = 2
    /\ store \in InitialItems
    /\ uuidCount = 0
    /\ calls = 0
    /\ last = NoCall
    /\ SyncInit
    /\ UiInit
    /\ AchievementsInit
    /\ calc = NoCalc
    /\ tasks = [p \in TaskIds |-> NoTask]

\* Time passes between calls
Tick ==
    /\ now < MaxTick
    /\ now' = now + 1
    /\ UNCHANGED <<store, uuidCount, calls, last, syncVars, calc, tasks, uiVars, achVars>>

\* One more call is made
Call ==
    /\ calls < MaxCalls
    /\ calls' = calls + 1

GetHabitsCall ==
    \E readOk \in BOOLEAN :
        /\ Call
        /\ last' = [NoCall EXCEPT !.op = "getHabits", !.ok = readOk, !.at = now,
                                  !.ret = getHabits(store, readOk, now),
                                  !.flag = (last.op = "saveHabits" /\ last.ok),
                                  !.arg = IF last.op = "saveHabits" THEN last.arg ELSE <<>>]
        /\ UNCHANGED <<now, store, uuidCount, syncVars, calc, tasks, uiVars, achVars>>

SaveHabitsCall ==
    \E habits \in Collections, writeOk \in BOOLEAN :
        LET r == saveHabits(store, habits, now, writeOk)
        IN  /\ Call
            /\ store' = r.store
            /\ last' = [NoCall EXCEPT !.op = "saveHabits", !.writeFailed = ~writeOk, !.ok = r.ok, !.at = now, !.arg = habits]
            /\ UNCHANGED <<now, uuidCount, syncVars, calc, tasks, uiVars, achVars>>

AddHabitCall ==
    \E habitData \in HabitDatas, readOk \in BOOLEAN, writeOk \in BOOLEAN :
        LET r == addHabit(store, habitData, generateUUID(uuidCount + 1), now, readOk, writeOk)
        IN  /\ Call
            /\ uuidCount < MaxUuid
            /\ uuidCount' = uuidCount + 1
            /\ store' = r.store
            /\ last' = [NoCall EXCEPT !.op = "addHabit", !.writeFailed = ~writeOk, !.ok = r.ok, !.at = now, !.arg = <<habitData>>,
                                      !.ret = IF r.ok THEN <<r.habit>> ELSE <<>>]
            /\ UNCHANGED <<now, syncVars, calc, tasks, uiVars, achVars>>

UpdateHabitCall ==
    \E habitId \in HabitIds, updates \in HabitUpdates, readOk \in BOOLEAN, writeOk \in BOOLEAN :
        LET r == updateHabit(store, habitId, updates, now, readOk, writeOk)
        IN  /\ Call
            /\ store' = r.store
            /\ last' = [NoCall EXCEPT !.op = "updateHabit", !.writeFailed = ~writeOk, !.ok = r.ok, !.at = now, !.id = habitId,
                                      !.arg = <<updates>>]
            /\ UNCHANGED <<now, uuidCount, syncVars, calc, tasks, uiVars, achVars>>

UpdateHabitCompletionCall ==
    \E habitId \in HabitIds, isCompleted \in BOOLEAN, readOk \in BOOLEAN, writeOk \in BOOLEAN :
        LET r == updateHabitCompletion(store, habitId, isCompleted, now, readOk, writeOk)
        IN  /\ Call
            /\ store' = r.store
            /\ last' = [NoCall EXCEPT !.op = "updateHabitCompletion", !.writeFailed = ~writeOk, !.ok = r.ok, !.at = now,
                                      !.id = habitId, !.target = isCompleted]
            /\ UNCHANGED <<now, uuidCount, syncVars, calc, tasks, uiVars, achVars>>

DeleteHabitCall ==
    \E habitId \in HabitIds, readOk \in BOOLEAN, writeOk \in BOOLEAN :
        LET r == deleteHabit(store, habitId, now, readOk, writeOk)
        IN  /\ Call
            /\ store' = r.store
            /\ last' = [NoCall EXCEPT !.op = "deleteHabit", !.writeFailed = ~writeOk, !.ok = r.ok, !.at = now, !.id = habitId]
            /\ UNCHANGED <<now, uuidCount, syncVars, calc, tasks, uiVars, achVars>>

RecalculateCall ==
    \E readOk \in BOOLEAN, writeOk \in BOOLEAN :
        LET r == recalculateAllHabitsProgress(store, now, readOk, writeOk)
        IN  /\ Call
            /\ store' = r.store
            /\ last' = [NoCall EXCEPT !.op = "recalculateAllHabitsProgress", !.writeFailed = ~writeOk, !.ok = r.ok, !.at = now]
            /\ UNCHANGED <<now, uuidCount, syncVars, calc, tasks, uiVars, achVars>>

Next ==
    \/ Tick
    \/ GetHabitsCall
    \/ SaveHabitsCall
    \/ AddHabitCall
    \/ UpdateHabitCall
    \/ UpdateHabitCompletionCall
    \/ DeleteHabitCall
    \/ RecalculateCall

Spec == Init /\ [][Next]_vars

----------------------------------------------------------------------------
(* Claims about the Habit Store *)

\* The habits of the stored envelope, as stored
StoredHabits == IF store.kind = "json" THEN store.value.habits ELSE <<>>

\* A step of Next that is a Habit Store call
IsCall == calls' = calls + 1

Mutations ==
    {"saveHabits", "addHabit", "updateHabit", "updateHabitCompletion", "deleteHabit",
     "recalculateAllHabitsProgress"}

\* C1: after recalculateAllHabitsProgress has returned true, every persisted
\* habit has completedDays equal to the number of completed history entries
\* and completedDays <= totalDays, whatever counters were stored before.
C1_RecalculateRestoresCounters ==
    (last.op = "recalculateAllHabitsProgress" /\ last.ok) =>
        \A i \in 1..Len(StoredHabits) :
            /\ StoredHabits[i].completedDays =
                   Cardinality({k \in 1..Len(StoredHabits[i].completionHistory) :
                                   StoredHabits[i].completionHistory[k].completed = TRUE})
            /\ StoredHabits[i].completedDays <= StoredHabits[i].totalDays

\* A recalculation has succeeded on the habit stored with completedDays 3,
\* totalDays 1 and one completed entry.
C1_Witness ==
    /\ last.op = "recalculateAllHabitsProgress"
    /\ last.ok
    /\ \E i \in 1..Len(StoredHabits) :
          /\ StoredHabits[i].name = StaleHabit.name
          /\ StoredHabits[i].completionHistory = StaleHabit.completionHistory
          /\ StoredHabits[i].completedDays = 1
          /\ StoredHabits[i].totalDays >= 2

\* The entries of a history that are not dated today
OtherDays(history, today) == {history[k] : k \in {j \in 1..Len(history) : history[j].date # today}}

\* The persisted habit after updateHabitCompletion(last.id, last.target) has
\* returned true: one entry dated today carrying the target, history ascending
\* by date, isCompleted the target, counters recomputed.
C2_Post ==
    (last.op = "updateHabitCompletion" /\ last.ok) =>
        LET i == findIndex(StoredHabits, last.id)
            today == DateOf(last.at)
        IN  /\ i > 0
            /\ LET h == StoredHabits[i]
                    hist == h.completionHistory
                IN  /\ Cardinality({k \in 1..Len(hist) : hist[k].date = today}) = 1
                    /\ \A k \in 1..Len(hist) : hist[k].date = today => hist[k].completed = last.target
                    /\ \A k \in 1..(Len(hist) - 1) : hist[k].date <= hist[k + 1].date
                    /\ h.isCompleted = last.target
                    /\ h.completedDays =
                           Cardinality({k \in 1..Len(hist) : hist[k].completed = TRUE})
                    /\ h.totalDays = Max(Len(hist), DaysSinceCreation(h.createdAt, last.at))

\* A successful updateHabitCompletion leaves the entries of other dates, and
\* how many there are, as they were.
C2_Frame ==
    (IsCall /\ last'.op = "updateHabitCompletion" /\ last'.ok) =>
        LET i == findIndex(StoredHabits, last'.id)
            today == DateOf(last'.at)
            old == StoredHabits[i].completionHistory
            new == StoredHabits'[i].completionHistory
        IN  /\ OtherDays(new, today) = OtherDays(old, today)
            /\ Len(new) - 1 = Cardinality({k \in 1..Len(old) : old[k].date # today})

\* The step repeats the previous successful call: same habit, same target,
\* same calendar day.
C2_Repeat ==
    /\ IsCall
    /\ last.op = "updateHabitCompletion" /\ last.ok
    /\ last'.op = "updateHabitCompletion" /\ last'.ok
    /\ last'.id = last.id
    /\ last'.target = last.target
    /\ DateOf(last'.at) = DateOf(last.at)

\* The repeated call changes neither the history nor isCompleted nor completedDays
C2_RepeatKeepsHistory ==
    C2_Repeat =>
        LET i == findIndex(StoredHabits, last.id)
        IN  /\ StoredHabits'[i].completionHistory = StoredHabits[i].completionHistory
            /\ StoredHabits'[i].isCompleted = StoredHabits[i].isCompleted
            /\ StoredHabits'[i].completedDays = StoredHabits[i].completedDays

\* The repeated call does not change totalDays
C2_RepeatKeepsTotal ==
    C2_Repeat =>
        LET i == findIndex(StoredHabits, last.id)
        IN  StoredHabits'[i].totalDays = StoredHabits[i].totalDays

\* The repeated call does not change totalDays while daysSinceCreation is the same
C2_RepeatKeepsTotalUnlessOlder ==
    C2_Repeat =>
        LET i == findIndex(StoredHabits, last.id)
        IN  DaysSinceCreation(StoredHabits[i].createdAt, last'.at)
                = DaysSinceCreation(StoredHabits[i].createdAt, last.at)
            => StoredHabits'[i].totalDays = StoredHabits[i].totalDays

\* C2 as claimed: after updateHabitCompletion(id, target) has returned true
\* the habit has exactly one entry dated today with completed = target, the
\* other entries are unchanged, the history is ascending, isCompleted =
\* target, completedDays counts the completed entries, totalDays =
\* max(history length, daysSinceCreation); and repeating the call with the
\* same target on the same day changes neither history nor counters.
C2_Original ==
    [][C2_Post' /\ C2_Frame /\ C2_RepeatKeepsHistory /\ C2_RepeatKeepsTotal]_vars

\* C2 as amended: the same, except that the repeated call may raise totalDays
\* when daysSinceCreation has grown since the first call (24 hours since
\* createdAt can elapse in the middle of a calendar day).
C2_CompletionUpdate ==
    [][C2_Post' /\ C2_Frame /\ C2_RepeatKeepsHistory /\ C2_RepeatKeepsTotalUnlessOlder]_vars

\* The call has been repeated on the same day with the same target
C2_Witness ==
    /\ calls = 2
    /\ last.op = "updateHabitCompletion" /\ last.ok /\ last.target
    /\ last.at = 3
    /\ \E i \in 1..Len(StoredHabits) :
          /\ StoredHabits[i].id = last.id
          /\ StoredHabits[i].completionHistory = <<Entry(1, TRUE)>>
          /\ StoredHabits[i].totalDays = 2
    /\ store.value.lastUpdated = 3

\* habitData whose name is missing, empty or made of spaces only, or whose
\* frequency is neither daily nor weekly
BadHabitData(habitData) ==
    \/ habitData.name = Undefined
    \/ \A k \in 1..Len(habitData.name) : habitData.name[k] = " "
    \/ habitData.frequency \notin {"daily", "weekly"}

\* C3: addHabit called with a missing, empty or whitespace-only name, or with
\* a frequency outside {daily, weekly}, returns null and writes nothing.
C3_AddHabitRejectsBadData ==
    [][(IsCall /\ last'.op = "addHabit" /\ BadHabitData(last'.arg[1]))
          => (~last'.ok /\ last'.ret = <<>> /\ store' = store)]_vars

\* addHabit has been called with a name of two spaces, storage working, on a
\* store that holds habits
C3_Witness ==
    /\ last.op = "addHabit"
    /\ last.arg[1].name = <<" ", " ">>
    /\ ~last.ok
    /\ Len(StoredHabits) = 2

\* C4: a Habit Store mutation that reports failure (false, or null from
\* addHabit) leaves the stored envelope exactly as it was.
C4_FailureWritesNothing ==
    [][(IsCall /\ last'.op \in Mutations /\ ~last'.ok) => store' = store]_vars

\* saveHabits has refused a collection holding a habit with a blank name
\* while an envelope was stored
C4_Witness ==
    /\ last.op = "saveHabits"
    /\ ~last.ok
    /\ last.arg = <<SteadyHabit, BlankHabit>>
    /\ store.kind = "json"
    /\ store.value.lastUpdated < last.at

\* C5: when saveHabits(habits) has returned true and nothing else was written,
\* the next getHabits() returns a collection equal to habits: same habits,
\* same order, same field values.
C5_RoundTrip ==
    (last.op = "getHabits" /\ last.ok /\ last.flag) => last.ret = last.arg

----------------------------------------------------------------------------
(* dataSynchronizer.js: performFullSync, one action per stretch of code    *)
(* between two awaits. The synchronizer is the only user of the store.     *)

\* The subscribers, in the order they subscribed (a Set iterates in insertion
\* order), and those whose callback throws whenever it is called
Listeners == <<"l1", "l2">>
Throwing == {"l1"}

RECURSIVE notifyListeners_stopAtThrow(_, _)
notifyListeners_stopAtThrow(listeners, throwing) ==
    IF listeners = <<>> THEN <<>>
    ELSE IF Head(listeners) \in throwing THEN <<Head(listeners)>>
    ELSE <<Head(listeners)>> \o notifyListeners_stopAtThrow(Tail(listeners), throwing)

\* notifyListeners(event, data): the listeners called, in order; a throw is
\* caught inside the forEach callback and the next listener is called
RECURSIVE notifyListeners(_, _)
notifyListeners(listeners, throwing) ==
    IF listeners = <<>> THEN <<>>
    ELSE <<Head(listeners)>> \o notifyListeners(Tail(listeners), throwing)

\* One notification: the event, its progress (0 when it has none) and the
\* listeners it reached
Event(event, progress) ==
    [event |-> event, progress |-> progress, to |-> notifyListeners(Listeners, Throwing)]

Guarded_never(inProgress, force) == FALSE

\* if (this.syncInProgress && !force): the call is turned away
Guarded(inProgress, force) == inProgress /\ ~force

Finally_skipped(inProgress) == inProgress

\* finally { this.syncInProgress = false }
Finally(inProgress) == FALSE

\* What a Habit Store call awaited by the synchronizer may do: work, have its
\* storage read or write fail (the store catches that and answers [] or
\* false), or reject, which stands for any throw inside the try block
StoreOutcomes == {"ok", "readFails", "writeFails", "rejects"}

\* The call: the guard, then everything up to the first await
SyncBegin(p) ==
    \E force \in BOOLEAN, recalculate \in BOOLEAN :
        /\ sync[p].pc = "idle"
        /\ IF Guarded(syncInProgress, force)
           THEN /\ sync' = [sync EXCEPT ![p] = [@ EXCEPT !.pc = "done", !.force = force,
                                                         !.recalculate = recalculate,
                                                         !.result = "busy"]]
                /\ UNCHANGED syncInProgress
           ELSE /\ syncInProgress' = TRUE
                /\ sync' = [sync EXCEPT ![p] =
                                [@ EXCEPT !.force = force,
                                          !.recalculate = recalculate,
                                          !.events = <<Event("sync_started", 0),
                                                       IF recalculate
                                                       THEN Event("sync_progress", 25)
                                                       ELSE Event("sync_progress", 50)>>,
                                          !.pc = IF recalculate THEN "recalculating"
                                                 ELSE "loading"]]
        /\ UNCHANGED <<calc, tasks, achVars, uiVars, now, store, uuidCount, calls, last, lastSyncTime, syncIo>>

\* The catch block and the finally: sync_failed, the failure result
SyncFail(p) ==
    /\ sync' = [sync EXCEPT ![p] = [@ EXCEPT !.pc = "done", !.result = "failed",
                                             !.events = Append(@, Event("sync_failed", 0))]]
    /\ syncInProgress' = Finally(syncInProgress)
    /\ UNCHANGED <<calc, tasks, achVars, uiVars, now, store, uuidCount, calls, last, lastSyncTime>>

\* Step 4, the return and the finally: progress 100, lastSyncTime, sync_completed
SyncComplete(p) ==
    /\ lastSyncTime' = now
    /\ sync' = [sync EXCEPT ![p] = [@ EXCEPT !.pc = "done", !.result = "success",
                                             !.events = @ \o <<Event("sync_progress", 100),
                                                               Event("sync_completed", 0)>>]]
    /\ syncInProgress' = Finally(syncInProgress)

\* await recalculateAllHabitsProgress() is over: step 2 up to await getHabits()
SyncRecalculated(p) ==
    \E outcome \in StoreOutcomes :
        /\ sync[p].pc = "recalculating"
        /\ syncIo' = syncIo + 1
        /\ IF outcome = "rejects" THEN SyncFail(p)
           ELSE /\ store' = recalculateAllHabitsProgress(store, now, outcome # "readFails",
                                                          outcome # "writeFails").store
                /\ sync' = [sync EXCEPT ![p] =
                                [@ EXCEPT !.pc = "loading",
                                          !.events = Append(@, Event("sync_progress", 50))]]
                /\ UNCHANGED <<calc, tasks, achVars, uiVars, now, uuidCount, calls, last, syncInProgress, lastSyncTime>>

\* await getHabits() is over: step 3 up to await validateDataIntegrity(habits)
SyncLoaded(p) ==
    \E outcome \in StoreOutcomes \ {"writeFails"} :
        /\ sync[p].pc = "loading"
        /\ syncIo' = syncIo + 1
        /\ IF outcome = "rejects" THEN SyncFail(p)
           ELSE /\ sync' = [sync EXCEPT ![p] =
                                [@ EXCEPT !.pc = "validating",
                                          !.events = Append(@, Event("sync_progress", 75)),
                                          !.habits = getHabits(store, outcome # "readFails", now)]]
                /\ UNCHANGED <<calc, tasks, achVars, uiVars, now, store, uuidCount, calls, last, syncInProgress, lastSyncTime>>

\* await validateDataIntegrity(habits) is over: complete, or go on to the fix
SyncValidated(p) ==
    LET issues == validateDataIntegrity(sync[p].habits)
    IN  /\ sync[p].pc = "validating"
        /\ IF issues = <<>>
           THEN /\ SyncComplete(p)
                /\ UNCHANGED <<calc, tasks, achVars, uiVars, now, store, uuidCount, calls, last, syncIo>>
           ELSE /\ sync' = [sync EXCEPT ![p] = [@ EXCEPT !.pc = "fixing", !.issues = issues]]
                /\ UNCHANGED <<calc, tasks, achVars, uiVars, now, store, uuidCount, calls, last, syncInProgress,
                               lastSyncTime, syncIo>>

\* await fixDataIntegrity(habits, issues) is over: up to await saveHabits(fixedHabits)
SyncFixed(p) ==
    LET fixed == fixDataIntegrity(sync[p].habits, sync[p].issues, uuidCount)
    IN  /\ sync[p].pc = "fixing"
        /\ uuidCount' = fixed.uuids
        /\ sync' = [sync EXCEPT ![p] = [@ EXCEPT !.pc = "saving", !.fixed = fixed.habits]]
        /\ UNCHANGED <<calc, tasks, achVars, uiVars, now, store, calls, last, syncInProgress, lastSyncTime, syncIo>>

\* await saveHabits(fixedHabits) is over, its result dropped: complete
SyncSaved(p) ==
    \E outcome \in StoreOutcomes \ {"readFails"} :
        /\ sync[p].pc = "saving"
        /\ syncIo' = syncIo + 1
        /\ IF outcome = "rejects"
           THEN SyncFail(p)
           ELSE /\ store' = saveHabits(store, sync[p].fixed, now, outcome = "ok").store
                /\ SyncComplete(p)
                /\ UNCHANGED <<calc, tasks, achVars, uiVars, now, uuidCount, calls, last>>

\* The code of invocation p after its first await
SyncStep(p) ==
    \/ SyncRecalculated(p)
    \/ SyncLoaded(p)
    \/ SyncValidated(p)
    \/ SyncFixed(p)
    \/ SyncSaved(p)

\* A collection with a repeated id and stale counters
RepeatedIdItem == Stringify(Envelope(<<StaleHabit, FreshHabit>>, 1))

InitSync ==
    /\ now = 2
    /\ store \in {Null, Stringify(Envelope(<<SteadyHabit, StaleHabit>>, 1)), RepeatedIdItem}
    /\ uuidCount = 0
    /\ calls = 0
    /\ last = NoCall
    /\ SyncInit
    /\ UiInit
    /\ AchievementsInit
    /\ calc = NoCalc
    /\ tasks = [p \in TaskIds |-> NoTask]

NextSync ==
    \/ \E p \in SyncIds : SyncBegin(p)
    \/ \E p \in SyncIds : SyncRecalculated(p)
    \/ \E p \in SyncIds : SyncLoaded(p)
    \/ \E p \in SyncIds : SyncValidated(p)
    \/ \E p \in SyncIds : SyncFixed(p)
    \/ \E p \in SyncIds : SyncSaved(p)

SpecSync == InitSync /\ [][NextSync]_vars

\* Every awaited call completes: an invocation past its first await goes on
SpecSyncLive == SpecSync /\ WF_vars(NextSync)

----------------------------------------------------------------------------
(* Claims about performFullSync *)

\* Invocation p has passed the guard and has not returned
Running(p) == sync[p].pc \notin {"idle", "done"}

\* C6: a performFullSync call made without force while syncInProgress is true
\* returns at once with the 'Sync already in progress' failure, emits no
\* event, makes no store call and changes neither syncInProgress nor
\* lastSyncTime.
C6_BusyCallReturnsAtOnce ==
    [][\A p \in SyncIds :
          (sync[p].pc = "idle" /\ sync'[p].pc # "idle" /\ ~sync'[p].force /\ syncInProgress)
          => /\ sync'[p].pc = "done"
             /\ sync'[p].result = "busy"
             /\ sync'[p].events = <<>>
             /\ \A q \in SyncIds \ {p} : sync'[q] = sync[q]
             /\ UNCHANGED <<store, syncIo, syncInProgress, lastSyncTime>>]_vars

\* An invocation has been turned away while another one is running
C6_Witness ==
    \E p, q \in SyncIds :
        /\ sync[p].result = "busy"
        /\ ~sync[p].force
        /\ Running(q)
        /\ syncInProgress

\* C7: every invocation that has passed the guard returns in the end, and
\* when it returns syncInProgress is false, whether it succeeded, repaired
\* integrity issues or had a step throw.
C7_SyncReturnsWithFlagCleared ==
    /\ \A p \in SyncIds : [](Running(p) => <>(sync[p].pc = "done"))
    /\ [][\A p \in SyncIds : (Running(p) /\ sync'[p].pc = "done") => ~syncInProgress']_vars

\* One invocation has failed on a rejected call and one has completed after
\* repairing issues
C7_Witness ==
    \E p, q \in SyncIds :
        /\ sync[p].result = "failed"
        /\ sync[q].result = "success"
        /\ sync[q].issues # <<>>
        /\ ~syncInProgress

\* C8: while an invocation that has set the flag, with or without force, has
\* not returned, syncInProgress is true.
C8_FlagHeldWhileRunning ==
    \A p \in SyncIds : Running(p) => syncInProgress

----------------------------------------------------------------------------
(* HomeScreen.js: loadHabits and handleToggleComplete. One handler runs at *)
(* a time; handleToggleComplete is two actions, split at its await of      *)
(* updateHabitCompletion.                                                  *)

\* What the store calls behind loadHabits may do
LoadOutcomes == {"ok", "readFails", "writeFails"}

\* The optimistic update of the tapped habit
OptimisticToggle(h, newCompletionStatus) ==
    [h EXCEPT !.isCompleted = newCompletionStatus,
              !.completedDays = IF newCompletionStatus
                                THEN h.completedDays + (IF h.isCompleted THEN 0 ELSE 1)
                                ELSE h.completedDays - (IF h.isCompleted THEN 1 ELSE 0)]

\* The revert: { ...h, isCompleted: habit.isCompleted }
RevertToggle(h, habit) == [h EXCEPT !.isCompleted = habit.isCompleted]

\* loadHabits(): recalculateAllHabitsProgress, getHabits, setHabits
HomeLoaded(item, outcome, tick) ==
    LET recalculated == recalculateAllHabitsProgress(item, tick, outcome # "readFails",
                                                     outcome # "writeFails").store
    IN  [store |-> recalculated,
         habits |-> getHabits(recalculated, outcome # "readFails", tick)]

\* The screen comes into focus, or is pulled to refresh
LoadHabits ==
    \E outcome \in LoadOutcomes :
        LET loaded == HomeLoaded(store, outcome, now)
        IN  /\ toggle.pc # "writing"
            /\ Call
            /\ store' = loaded.store
            /\ homeHabits' = loaded.habits
            /\ UNCHANGED <<now, uuidCount, last, syncVars, calc, tasks, achVars, toggle, state, mgr>>

\* A tap on a habit's checkbox: up to await updateHabitCompletion(...)
HandleToggleComplete ==
    \E habitId \in HabitIds :
        LET index == findIndex(homeHabits, habitId)
        IN  /\ toggle.pc # "writing"
            /\ Call
            /\ IF index = 0
               THEN /\ toggle' = [NoToggle EXCEPT !.pc = "done", !.habitId = habitId,
                                                  !.habits = homeHabits,
                                                  !.result = "notFound"]
                    /\ UNCHANGED homeHabits
               ELSE /\ homeHabits' =
                          [k \in 1..Len(homeHabits) |->
                              IF homeHabits[k].id = habitId
                              THEN OptimisticToggle(homeHabits[k], ~homeHabits[index].isCompleted)
                              ELSE homeHabits[k]]
                    /\ toggle' = [NoToggle EXCEPT !.pc = "writing", !.habitId = habitId,
                                                  !.habits = homeHabits]
            /\ UNCHANGED <<now, store, uuidCount, last, syncVars, calc, tasks, achVars, state, mgr>>

\* await updateHabitCompletion(...) is over: reload on success, revert on
\* false and in the catch block. The achievements unlocked after a reload
\* are kept under another storage key and leave '@habits' alone.
ToggleWritten ==
    \E outcome \in StoreOutcomes, reload \in LoadOutcomes :
        LET habit == toggle.habits[findIndex(toggle.habits, toggle.habitId)]
            written == updateHabitCompletion(store, toggle.habitId, ~habit.isCompleted, now,
                                             outcome # "readFails", outcome # "writeFails")
            success == outcome # "rejects" /\ written.ok
            loaded == HomeLoaded(written.store, reload, now)
        IN  /\ toggle.pc = "writing"
            /\ IF success
               THEN /\ store' = loaded.store
                    /\ homeHabits' = loaded.habits
                    /\ toggle' = [toggle EXCEPT !.pc = "done", !.result = "saved"]
               ELSE /\ homeHabits' =
                          [k \in 1..Len(homeHabits) |->
                              IF homeHabits[k].id = toggle.habitId
                              THEN RevertToggle(homeHabits[k], habit)
                              ELSE homeHabits[k]]
                    /\ toggle' = [toggle EXCEPT !.pc = "done",
                                                !.result = IF outcome = "rejects"
                                                           THEN "threw" ELSE "failed"]
                    /\ UNCHANGED store
            /\ UNCHANGED <<now, uuidCount, calls, last, syncVars, calc, tasks, achVars, state, mgr>>

NextHome ==
    \/ Tick
    \/ LoadHabits
    \/ HandleToggleComplete
    \/ ToggleWritten

SpecHome == Init /\ [][NextHome]_vars

\* C9: when updateHabitCompletion returns false or throws after the
\* optimistic update, the tapped habit is back at its value before the tap:
\* isCompleted and completedDays are what they were.
C9_RevertRestoresHabit ==
    (toggle.pc = "done" /\ toggle.result \in {"failed", "threw"})
    => \A k \in 1..Len(homeHabits) :
          homeHabits[k].id = toggle.habitId
          => /\ homeHabits[k].isCompleted = toggle.habits[k].isCompleted
             /\ homeHabits[k].completedDays = toggle.habits[k].completedDays

----------------------------------------------------------------------------
(* AppStateManager: one call at a time; saveHabits, updateHabit and        *)
(* deleteHabit are two actions each, split at the await of the store call. *)

Reverted_kept(previousHabits, habits) == habits

\* this.setState({ habits: previousHabits })
Reverted(previousHabits, habits) == previousHabits

\* No AppStateManager call is between its two actions
ManagerIdle == mgr.pc # "awaiting"

\* loadHabits(options)
Manager_loadHabits ==
    \E recalculate \in BOOLEAN, outcome \in LoadOutcomes :
        LET item == IF recalculate
                    THEN recalculateAllHabitsProgress(store, now, outcome # "readFails",
                                                      outcome # "writeFails").store
                    ELSE store
        IN  /\ ManagerIdle
            /\ Call
            /\ store' = item
            /\ state' = [habits |-> getHabits(item, outcome # "readFails", now),
                         error |-> FALSE, lastUpdated |-> now]
            /\ mgr' = [NoManagerCall EXCEPT !.op = "loadHabits", !.pc = "done", !.ret = TRUE]
            /\ UNCHANGED <<now, uuidCount, last, syncVars, calc, tasks, achVars, homeHabits, toggle>>

\* addHabit(habitData)
Manager_addHabit ==
    \E habitData \in HabitDatas, readOk \in BOOLEAN, writeOk \in BOOLEAN :
        LET added == addHabit(store, habitData, generateUUID(uuidCount + 1), now, readOk, writeOk)
        IN  /\ ManagerIdle
            /\ Call
            /\ uuidCount < MaxUuid
            /\ uuidCount' = uuidCount + 1
            /\ store' = added.store
            /\ state' = IF added.ok
                        THEN [state EXCEPT !.habits = Append(@, added.habit),
                                           !.lastUpdated = now]
                        ELSE state
            /\ mgr' = [NoManagerCall EXCEPT !.op = "addHabit", !.pc = "done",
                                            !.failed = ~added.ok, !.ret = added.ok]
            /\ UNCHANGED <<now, last, syncVars, calc, tasks, achVars, homeHabits, toggle>>

\* saveHabits(habits, options): up to await saveHabits(habits)
Manager_saveHabits ==
    \E habits \in Collections, optimistic \in BOOLEAN :
        /\ ManagerIdle
        /\ Call
        /\ state' = IF optimistic
                    THEN [state EXCEPT !.habits = habits, !.lastUpdated = now]
                    ELSE state
        /\ mgr' = [NoManagerCall EXCEPT !.op = "saveHabits", !.pc = "awaiting",
                                        !.arg = habits, !.optimistic = optimistic,
                                        !.previousHabits = state.habits]
        /\ UNCHANGED <<now, store, uuidCount, last, syncVars, calc, tasks, achVars, homeHabits, toggle>>

\* saveHabits: the store's saveHabits is over
Manager_saveHabitsDone ==
    \E outcome \in {"ok", "writeFails", "rejects"} :
        LET saved == saveHabits(store, mgr.arg, now, outcome = "ok")
            success == outcome # "rejects" /\ saved.ok
        IN  /\ mgr.pc = "awaiting"
            /\ mgr.op = "saveHabits"
            /\ IF success
               THEN /\ store' = saved.store
                    /\ state' = [habits |-> mgr.arg, error |-> FALSE, lastUpdated |-> now]
               ELSE /\ state' = [state EXCEPT
                                    !.habits = IF mgr.optimistic
                                               THEN Reverted(mgr.previousHabits, @)
                                               ELSE @,
                                    !.error = TRUE]
                    /\ UNCHANGED store
            /\ mgr' = [mgr EXCEPT !.pc = "done", !.failed = ~success, !.ret = success]
            /\ UNCHANGED <<now, uuidCount, calls, last, syncVars, calc, tasks, achVars, homeHabits, toggle>>

\* updateHabit(habitId, updates, options): up to await this.saveHabits(...)
Manager_updateHabit ==
    \E habitId \in HabitIds, updates \in HabitUpdates, optimistic \in BOOLEAN :
        LET habitIndex == findIndex(state.habits, habitId)
        IN  /\ ManagerIdle
            /\ Call
            /\ IF habitIndex = 0
               THEN /\ mgr' = [NoManagerCall EXCEPT !.op = "updateHabit", !.pc = "done",
                                                    !.habitId = habitId,
                                                    !.previousHabits = state.habits]
                    /\ UNCHANGED state
               ELSE /\ state' = IF optimistic
                                THEN [state EXCEPT !.habits[habitIndex] = Merge(@, updates)]
                                ELSE state
                    /\ mgr' = [NoManagerCall EXCEPT
                                  !.op = "updateHabit", !.pc = "awaiting",
                                  !.habitId = habitId, !.updates = updates,
                                  !.optimistic = optimistic,
                                  !.previousHabits = state.habits,
                                  !.arg = [state.habits EXCEPT
                                              ![habitIndex] = Merge(@, updates)]]
            /\ UNCHANGED <<now, store, uuidCount, last, syncVars, calc, tasks, achVars, homeHabits, toggle>>

\* updateHabit: this.saveHabits(updatedHabits, { optimistic: false }) is over
Manager_updateHabitDone ==
    \E outcome \in {"ok", "writeFails", "rejects"} :
        LET saved == saveHabits(store, mgr.arg, now, outcome = "ok")
            success == outcome # "rejects" /\ saved.ok
        IN  /\ mgr.pc = "awaiting"
            /\ mgr.op = "updateHabit"
            /\ IF success
               THEN /\ store' = saved.store
                    /\ state' = [habits |-> mgr.arg, error |-> FALSE, lastUpdated |-> now]
               ELSE /\ state' = [state EXCEPT
                                    !.habits = IF mgr.optimistic
                                               THEN Reverted(mgr.previousHabits, @)
                                               ELSE @,
                                    !.error = TRUE]
                    /\ UNCHANGED store
            /\ mgr' = [mgr EXCEPT !.pc = "done", !.failed = ~success, !.ret = success]
            /\ UNCHANGED <<now, uuidCount, calls, last, syncVars, calc, tasks, achVars, homeHabits, toggle>>

\* deleteHabit(habitId): up to await deleteHabit(habitId)
Manager_deleteHabit ==
    \E habitId \in HabitIds :
        /\ ManagerIdle
        /\ Call
        /\ state' = [state EXCEPT !.habits = WithoutId(@, habitId)]
        /\ mgr' = [NoManagerCall EXCEPT !.op = "deleteHabit", !.pc = "awaiting",
                                        !.habitId = habitId, !.optimistic = TRUE,
                                        !.previousHabits = state.habits]
        /\ UNCHANGED <<now, store, uuidCount, last, syncVars, calc, tasks, achVars, homeHabits, toggle>>

\* deleteHabit: the store's deleteHabit is over
Manager_deleteHabitDone ==
    \E outcome \in StoreOutcomes :
        LET deleted == deleteHabit(store, mgr.habitId, now, outcome # "readFails",
                                   outcome # "writeFails")
            success == outcome # "rejects" /\ deleted.ok
        IN  /\ mgr.pc = "awaiting"
            /\ mgr.op = "deleteHabit"
            /\ IF success
               THEN /\ store' = deleted.store
                    /\ UNCHANGED state
               ELSE /\ state' = [state EXCEPT !.habits = Reverted(mgr.previousHabits, @)]
                    /\ UNCHANGED store
            /\ mgr' = [mgr EXCEPT !.pc = "done", !.failed = ~success, !.ret = success]
            /\ UNCHANGED <<now, uuidCount, calls, last, syncVars, calc, tasks, achVars, homeHabits, toggle>>

NextManager ==
    \/ Manager_loadHabits
    \/ Manager_addHabit
    \/ Manager_saveHabits
    \/ Manager_saveHabitsDone
    \/ Manager_updateHabit
    \/ Manager_updateHabitDone
    \/ Manager_deleteHabit
    \/ Manager_deleteHabitDone

SpecManager == Init /\ [][NextManager]_vars

\* C10: a saveHabits (optimistic), updateHabit or deleteHabit call whose
\* store write fails returns false and leaves state.habits as it was when
\* the call was made.
C10_FailedWriteRestoresHabits ==
    [][/\ (ManagerIdle /\ mgr'.pc = "awaiting") => mgr'.previousHabits = state.habits
       /\ (/\ mgr.pc = "awaiting"
           /\ mgr'.pc = "done"
           /\ mgr'.failed
           /\ (mgr.op = "saveHabits" => mgr.optimistic))
          => (state'.habits = mgr.previousHabits /\ mgr'.ret = FALSE)]_vars

\* An optimistic updateHabit that renamed a loaded habit has failed
C10_Witness ==
    /\ mgr.op = "updateHabit"
    /\ mgr.pc = "done"
    /\ mgr.failed
    /\ mgr.optimistic
    /\ mgr.arg # mgr.previousHabits
    /\ Len(state.habits) = 2

----------------------------------------------------------------------------
(* storage.js: updateHabitCompletion calls that overlap. A call is three    *)
(* actions, split at await AsyncStorage.getItem and await                   *)
(* AsyncStorage.setItem.                                                    *)

TaskHabitIds == {"a", "b"}

\* The call, up to the await of the storage read
Store_updateHabitCompletion(p) ==
    \E habitId \in TaskHabitIds, isCompleted \in BOOLEAN :
        /\ tasks[p].pc = "idle"
        /\ tasks' = [tasks EXCEPT ![p] = [NoTask EXCEPT !.op = "updateHabitCompletion",
                                                        !.pc = "reading",
                                                        !.habitId = habitId,
                                                        !.target = isCompleted]]
        /\ UNCHANGED <<now, store, uuidCount, calls, last, syncVars, uiVars, achVars, calc>>

\* The read is over: not found, or the updated collection is validated and
\* handed to setItem
Store_updateHabitCompletionRead(p) ==
    \E readOk \in BOOLEAN :
        LET habits == getHabits(store, readOk, now)
            habitIndex == findIndex(habits, tasks[p].habitId)
            updatedHabits == [habits EXCEPT ![habitIndex] =
                                 CompletionUpdate(habits[habitIndex], tasks[p].target, now)]
            \* for the record: what was read, and the calls whose write was over
            read == [tasks[p] EXCEPT !.read = readOk, !.seen = habits,
                                     !.after = {q \in TaskIds : tasks[q].pc = "done"
                                                                /\ tasks[q].ret}]
        IN  /\ tasks[p].pc = "reading"
            /\ tasks' = [tasks EXCEPT ![p] =
                            IF habitIndex = 0
                            THEN [read EXCEPT !.pc = "done"]
                            ELSE IF ~validateStoredData(Envelope(updatedHabits, now))
                            THEN [read EXCEPT !.pc = "done", !.arg = updatedHabits, !.at = now]
                            ELSE [read EXCEPT !.pc = "writing", !.arg = updatedHabits,
                                              !.at = now]]
            /\ UNCHANGED <<now, store, uuidCount, calls, last, syncVars, uiVars, achVars, calc>>

\* The write is over
Store_updateHabitCompletionWritten(p) ==
    \E writeOk \in BOOLEAN :
        LET saved == setStorageData(store, Envelope(tasks[p].arg, tasks[p].at), writeOk)
        IN  /\ tasks[p].pc = "writing"
            /\ store' = saved.store
            /\ tasks' = [tasks EXCEPT ![p] = [@ EXCEPT !.pc = "done", !.ret = saved.ok]]
            /\ UNCHANGED <<now, uuidCount, calls, last, syncVars, uiVars, achVars, calc>>

InitWriters ==
    /\ now = 2
    /\ store \in {Null, Stringify(Envelope(<<FreshHabit>>, 1)),
                  Stringify(Envelope(<<SteadyHabit, StaleHabit>>, 1))}
    /\ uuidCount = 0
    /\ calls = 0
    /\ last = NoCall
    /\ SyncInit
    /\ UiInit
    /\ AchievementsInit
    /\ calc = NoCalc
    /\ tasks = [p \in TaskIds |-> NoTask]

NextWriters ==
    \/ Tick
    \/ \E p \in TaskIds : Store_updateHabitCompletion(p)
    \/ \E p \in TaskIds : Store_updateHabitCompletionRead(p)
    \/ \E p \in TaskIds : Store_updateHabitCompletionWritten(p)

SpecWriters == InitWriters /\ [][NextWriters]_vars

\* The habit with this id in a collection
HabitWithId(habits, id) == habits[findIndex(habits, id)]

\* Call p has written its collection
Wrote(p) == tasks[p].pc = "done" /\ tasks[p].ret

----------------------------------------------------------------------------
(* AppStateManager calls that overlap. A call is two actions: the code up   *)
(* to its await of the Habit Store, then the store function, taken in one   *)
(* step with every read succeeding, and the code after the await.           *)

OverlapFrame == UNCHANGED <<now, uuidCount, calls, last, syncVars, achVars, calc, homeHabits,
                            toggle, mgr>>

\* saveHabits(habits, options): up to await saveHabits(habits)
Overlap_saveHabits(p) ==
    \E habits \in Collections, optimistic \in BOOLEAN :
        /\ tasks[p].pc = "idle"
        /\ state' = IF optimistic
                    THEN [state EXCEPT !.habits = habits, !.lastUpdated = now]
                    ELSE state
        /\ tasks' = [tasks EXCEPT ![p] = [NoTask EXCEPT !.op = "saveHabits",
                                                        !.pc = "awaiting",
                                                        !.arg = habits,
                                                        !.optimistic = optimistic,
                                                        !.previousHabits = state.habits]]
        /\ UNCHANGED store
        /\ OverlapFrame

\* updateHabit(habitId, updates, options): up to await this.saveHabits(...),
\* which runs on to its own await saveHabits(habits)
Overlap_updateHabit(p) ==
    \E habitId \in TaskHabitIds, updates \in HabitUpdates, optimistic \in BOOLEAN :
        LET habitIndex == findIndex(state.habits, habitId)
        IN  /\ tasks[p].pc = "idle"
            /\ IF habitIndex = 0
               THEN /\ tasks' = [tasks EXCEPT ![p] = [NoTask EXCEPT
                                     !.op = "updateHabit", !.pc = "done",
                                     !.habitId = habitId,
                                     !.previousHabits = state.habits]]
                    /\ UNCHANGED state
               ELSE /\ state' = IF optimistic
                                THEN [state EXCEPT !.habits[habitIndex] = Merge(@, updates)]
                                ELSE state
                    /\ tasks' = [tasks EXCEPT ![p] = [NoTask EXCEPT
                                     !.op = "updateHabit", !.pc = "awaiting",
                                     !.habitId = habitId, !.updates = updates,
                                     !.optimistic = optimistic,
                                     !.previousHabits = state.habits,
                                     !.arg = [state.habits EXCEPT
                                                 ![habitIndex] = Merge(@, updates)]]]
            /\ UNCHANGED store
            /\ OverlapFrame

\* saveHabits, also as updateHabit calls it with optimistic false: the store's
\* saveHabits is over. A failed updateHabit then reverts its own optimistic
\* update.
Overlap_saved(p) ==
    \E writeOk \in BOOLEAN :
        LET saved == saveHabits(store, tasks[p].arg, now, writeOk)
            revert == tasks[p].optimistic
        IN  /\ tasks[p].pc = "awaiting"
            /\ tasks[p].op \in {"saveHabits", "updateHabit"}
            /\ store' = saved.store
            /\ state' = IF saved.ok
                        THEN [habits |-> tasks[p].arg, error |-> FALSE, lastUpdated |-> now]
                        ELSE [state EXCEPT
                                 !.habits = IF revert
                                            THEN Reverted(tasks[p].previousHabits, @)
                                            ELSE @,
                                 !.error = TRUE]
            /\ tasks' = [tasks EXCEPT ![p].pc = "done", ![p].ret = saved.ok, ![p].at = now]
            /\ OverlapFrame

\* addHabit(habitData): up to await addHabit(habitData)
Overlap_addHabit(p) ==
    \E habitData \in HabitDatas :
        /\ tasks[p].pc = "idle"
        /\ tasks' = [tasks EXCEPT ![p] = [NoTask EXCEPT !.op = "addHabit",
                                                        !.pc = "awaiting",
                                                        !.arg = <<habitData>>]]
        /\ UNCHANGED <<store, state>>
        /\ OverlapFrame

\* addHabit: the store's addHabit is over
Overlap_added(p) ==
    \E writeOk \in BOOLEAN :
        LET added == addHabit(store, tasks[p].arg[1], generateUUID(uuidCount + 1), now,
                              TRUE, writeOk)
        IN  /\ tasks[p].pc = "awaiting"
            /\ tasks[p].op = "addHabit"
            /\ uuidCount < MaxUuid
            /\ uuidCount' = uuidCount + 1
            /\ store' = added.store
            /\ state' = IF added.ok
                        THEN [state EXCEPT !.habits = Append(@, added.habit),
                                           !.lastUpdated = now]
                        ELSE state
            /\ tasks' = [tasks EXCEPT ![p].pc = "done", ![p].ret = added.ok, ![p].at = now]
            /\ UNCHANGED <<now, calls, last, syncVars, achVars, calc, homeHabits, toggle, mgr>>

\* deleteHabit(habitId): up to await deleteHabit(habitId)
Overlap_deleteHabit(p) ==
    \E habitId \in TaskHabitIds :
        /\ tasks[p].pc = "idle"
        /\ state' = [state EXCEPT !.habits = WithoutId(@, habitId)]
        /\ tasks' = [tasks EXCEPT ![p] = [NoTask EXCEPT !.op = "deleteHabit",
                                                        !.pc = "awaiting",
                                                        !.habitId = habitId,
                                                        !.optimistic = TRUE,
                                                        !.previousHabits = state.habits]]
        /\ UNCHANGED store
        /\ OverlapFrame

\* deleteHabit: the store's deleteHabit is over
Overlap_deleted(p) ==
    \E writeOk \in BOOLEAN :
        LET deleted == deleteHabit(store, tasks[p].habitId, now, TRUE, writeOk)
        IN  /\ tasks[p].pc = "awaiting"
            /\ tasks[p].op = "deleteHabit"
            /\ store' = deleted.store
            /\ state' = IF deleted.ok
                        THEN state
                        ELSE [state EXCEPT !.habits = Reverted(tasks[p].previousHabits, @)]
            /\ tasks' = [tasks EXCEPT ![p].pc = "done", ![p].ret = deleted.ok, ![p].at = now]
            /\ OverlapFrame

\* The manager after an initial loadHabits whose storage calls succeeded on
\* a valid envelope
InitOverlap ==
    /\ now = 2
    /\ \E item \in {Stringify(Envelope(<<>>, 1)), Stringify(Envelope(<<FreshHabit>>, 1)),
                     Stringify(Envelope(<<SteadyHabit, StaleHabit>>, 1))} :
          /\ store = recalculateAllHabitsProgress(item, now, TRUE, TRUE).store
          /\ state = [habits |-> getHabits(store, TRUE, now), error |-> FALSE,
                      lastUpdated |-> now]
    /\ uuidCount = 0
    /\ calls = 0
    /\ last = NoCall
    /\ SyncInit
    /\ homeHabits = <<>>
    /\ toggle = NoToggle
    /\ mgr = [NoManagerCall EXCEPT !.op = "loadHabits", !.pc = "done", !.ret = TRUE]
    /\ AchievementsInit
    /\ calc = NoCalc
    /\ tasks = [p \in TaskIds |-> NoTask]

NextOverlap ==
    \/ \E p \in TaskIds : Overlap_saveHabits(p)
    \/ \E p \in TaskIds : Overlap_updateHabit(p)
    \/ \E p \in TaskIds : Overlap_saved(p)
    \/ \E p \in TaskIds : Overlap_addHabit(p)
    \/ \E p \in TaskIds : Overlap_added(p)
    \/ \E p \in TaskIds : Overlap_deleteHabit(p)
    \/ \E p \in TaskIds : Overlap_deleted(p)

SpecOverlap == InitOverlap /\ [][NextOverlap]_vars

\* state.habits as JSON.stringify would write them
StateHabitsAsStored == [k \in 1..Len(state.habits) |-> JsonHabit(state.habits[k])]

\* C29: after an initial loadHabits, however addHabit, updateHabit,
\* deleteHabit and saveHabits calls of the manager overlap and whether their
\* writes succeed or fail, once no call is in flight state.habits equals the
\* persisted collection in content.
C29_StateEqualsPersisted ==
    (\A p \in TaskIds : tasks[p].pc # "awaiting") => StateHabitsAsStored = StoredHabits

----------------------------------------------------------------------------
(* storage.js: the unlocked achievements, kept under '@achievements' as    *)
(* the JSON text of an array of ids. A parsed value is [isArray, items].   *)

ArrayValue(items) == [isArray |-> TRUE, items |-> items]

\* The JSON text of a value that is not an array
ObjectItem == [kind |-> "json", value |-> [isArray |-> FALSE, items |-> <<>>]]

\* getUserAchievements()
getUserAchievements(item, readOk) ==
    LET data == getStorageData(item, readOk, ArrayValue(<<>>))
    IN  IF data.isArray THEN data.items ELSE <<>>

\* saveUserAchievements(achievements): the result and the item stored afterwards
saveUserAchievements(item, ids, writeOk) ==
    IF writeOk THEN [ok |-> TRUE, store |-> [kind |-> "json", value |-> ArrayValue(ids)]]
    ELSE [ok |-> FALSE, store |-> item]

\* unlockAchievement(achievementId): the result, the item stored afterwards
\* and whether setItem was called
unlockAchievement(item, achievementId, readOk, writeOk) ==
    LET currentAchievements == getUserAchievements(item, readOk)
        saved == saveUserAchievements(item, Append(currentAchievements, achievementId), writeOk)
    IN  IF ~InSeq(achievementId, currentAchievements)
        THEN [ok |-> saved.ok, store |-> saved.store, wrote |-> TRUE]
        ELSE [ok |-> TRUE, store |-> item, wrote |-> FALSE]

\* Ids handed to unlockAchievement
AchievementArgs == {"first_steps", "week_warrior", "habit_collector"}

\* What may be stored under '@achievements' when the program starts: nothing,
\* a text that does not parse, a value that is not an array, lists written by
\* earlier unlocks
InitialAchievementItems ==
    { Null, Corrupt, ObjectItem,
      [kind |-> "json", value |-> ArrayValue(<<>>)],
      [kind |-> "json", value |-> ArrayValue(<<"first_steps">>)],
      [kind |-> "json", value |-> ArrayValue(<<"week_warrior", "first_steps">>)] }

InitAchievements ==
    /\ now = 2
    /\ store = Null
    /\ uuidCount = 0
    /\ calls = 0
    /\ last = NoCall
    /\ SyncInit
    /\ UiInit
    /\ achievements \in InitialAchievementItems
    /\ unlock = [p \in UnlockCallers |-> NoUnlock]
    /\ calc = NoCalc
    /\ tasks = [p \in TaskIds |-> NoTask]

\* getUserAchievements(), called on its own
GetUserAchievementsCall ==
    \E readOk \in BOOLEAN :
        /\ Call
        /\ last' = [NoCall EXCEPT !.op = "getUserAchievements", !.ok = readOk, !.at = now,
                                  !.ret = getUserAchievements(achievements, readOk)]
        /\ UNCHANGED <<now, store, uuidCount, syncVars, calc, tasks, uiVars, achVars>>

\* unlockAchievement(achievementId), run from call to return with no other
\* call in between
UnlockAchievementCall ==
    \E achievementId \in AchievementArgs, readOk \in BOOLEAN, writeOk \in BOOLEAN :
        LET r == unlockAchievement(achievements, achievementId, readOk, writeOk)
        IN  /\ Call
            /\ achievements' = r.store
            /\ last' = [NoCall EXCEPT !.op = "unlockAchievement", !.ok = r.ok, !.at = now,
                                      !.id = achievementId, !.flag = r.wrote]
            /\ UNCHANGED <<now, store, uuidCount, syncVars, calc, tasks, uiVars, unlock>>

NextAchievements ==
    \/ GetUserAchievementsCall
    \/ UnlockAchievementCall

SpecAchievements == InitAchievements /\ [][NextAchievements]_vars

\* The ids of the persisted list, in order
PersistedAchievements ==
    IF achievements.kind = "json" /\ achievements.value.isArray
    THEN achievements.value.items ELSE <<>>

NoDuplicateIds(ids) == \A j, k \in 1..Len(ids) : ids[j] = ids[k] => j = k

\* C11: unlockAchievement(id) for an id already in the persisted list returns
\* true, calls no write and leaves the list as it was; after any sequence of
\* unlockAchievement calls, one at a time, the persisted list has no id twice.
C11_UnlockIsIdempotent ==
    /\ [][(IsCall /\ last'.op = "unlockAchievement" /\ InSeq(last'.id, PersistedAchievements))
          => (last'.ok /\ ~last'.flag /\ achievements' = achievements)]_vars
    /\ [](NoDuplicateIds(PersistedAchievements))

----------------------------------------------------------------------------
(* unlockAchievement calls that may overlap (two taps, each running        *)
(* HomeScreen's unlock loop): one action per stretch between two awaits.   *)

\* The call, up to await getUserAchievements()
UnlockBegin(p) ==
    \E achievementId \in AchievementArgs :
        /\ unlock[p].pc = "idle"
        /\ unlock' = [unlock EXCEPT ![p] = [NoUnlock EXCEPT !.pc = "reading",
                                                            !.id = achievementId]]
        /\ UNCHANGED <<now, store, uuidCount, calls, last, syncVars, calc, tasks, uiVars, achievements>>

\* await getUserAchievements() is over: return true, or go on to the write
UnlockRead(p) ==
    \E readOk \in BOOLEAN :
        LET currentAchievements == getUserAchievements(achievements, readOk)
        IN  /\ unlock[p].pc = "reading"
            /\ unlock' = [unlock EXCEPT ![p] =
                             IF InSeq(unlock[p].id, currentAchievements)
                             THEN [@ EXCEPT !.pc = "done", !.ret = TRUE,
                                            !.current = currentAchievements]
                             ELSE [@ EXCEPT !.pc = "writing",
                                            !.current = currentAchievements]]
            /\ UNCHANGED <<now, store, uuidCount, calls, last, syncVars, calc, tasks, uiVars, achievements>>

\* await saveUserAchievements(updatedAchievements) is over
UnlockWritten(p) ==
    \E writeOk \in BOOLEAN :
        LET saved == saveUserAchievements(achievements,
                                          Append(unlock[p].current, unlock[p].id), writeOk)
        IN  /\ unlock[p].pc = "writing"
            /\ achievements' = saved.store
            /\ unlock' = [unlock EXCEPT ![p] = [@ EXCEPT !.pc = "done", !.ret = saved.ok]]
            /\ UNCHANGED <<now, store, uuidCount, calls, last, syncVars, calc, tasks, uiVars>>

NextUnlock ==
    \/ \E p \in UnlockCallers : UnlockBegin(p)
    \/ \E p \in UnlockCallers : UnlockRead(p)
    \/ \E p \in UnlockCallers : UnlockWritten(p)

SpecUnlock == InitAchievements /\ [][NextUnlock]_vars

\* C12: under unlockAchievement calls in any interleaving, an id that is in
\* the persisted list stays in it.
C12_UnlockedIdsStay ==
    [][\A id \in AchievementArgs :
          InSeq(id, PersistedAchievements) => InSeq(id, PersistedAchievements')]_vars

----------------------------------------------------------------------------
(* progressCalculations.js. An argument that may fail Array.isArray is     *)
(* [isArray, items]; a habit argument that may be absent is [present, ...]. *)

NotAnArray == [isArray |-> FALSE, items |-> <<>>]

\* Math.round(a / b * 100) for integers a >= 0, b > 0: halves go up
RoundPercent(a, b) == (200 * a + b) \div (2 * b)

Min(a, b) == IF a <= b THEN a ELSE b

calculateCompletionPercentage_uncapped(habit) ==
    IF ~habit.present \/ habit.totalDays = 0 THEN 0
    ELSE RoundPercent(habit.completedDays, habit.totalDays)

\* calculateCompletionPercentage(habit)
calculateCompletionPercentage(habit) ==
    IF ~habit.present \/ habit.totalDays = 0 THEN 0
    ELSE Min(RoundPercent(habit.completedDays, habit.totalDays), 100)

\* Insert an entry behind every entry that does not come before it
RECURSIVE InsertNewestFirst(_, _)
InsertNewestFirst(sorted, e) ==
    IF sorted = <<>> THEN <<e>>
    ELSE IF Head(sorted).date >= e.date
         THEN <<Head(sorted)>> \o InsertNewestFirst(Tail(sorted), e)
         ELSE <<e>> \o sorted

\* [...completionHistory].sort((a, b) => new Date(b.date) - new Date(a.date))
RECURSIVE SortNewestFirst(_)
SortNewestFirst(history) ==
    IF history = <<>> THEN <<>>
    ELSE InsertNewestFirst(SortNewestFirst(SubSeq(history, 1, Len(history) - 1)),
                           history[Len(history)])

\* sortedHistory.reverse()
Reverse(seq) == [k \in 1..Len(seq) |-> seq[Len(seq) + 1 - k]]

\* The first loop of calculateStreak, from index i (from 1) on
RECURSIVE CurrentStreakFrom(_, _, _)
CurrentStreakFrom(sortedHistory, i, currentStreak) ==
    IF i > Len(sortedHistory) THEN currentStreak
    ELSE IF sortedHistory[i].completed
         THEN (IF i = 1 THEN CurrentStreakFrom(sortedHistory, i + 1, 1)
               ELSE IF currentStreak = 0 THEN currentStreak
               ELSE CurrentStreakFrom(sortedHistory, i + 1, currentStreak))
         ELSE (IF i = 1 THEN 0
               ELSE CurrentStreakFrom(sortedHistory, i + 1, currentStreak))

RECURSIVE LongestStreakFrom_noReset(_, _, _, _)
LongestStreakFrom_noReset(entries, k, tempStreak, longestStreak) ==
    IF k > Len(entries) THEN longestStreak
    ELSE IF entries[k].completed
         THEN CHOOSE r \in {LongestStreakFrom_noReset(entries, k + 1, t, m) :
                                t \in {tempStreak + 1},
                                m \in {Max(longestStreak, tempStreak + 1)}} : TRUE
         ELSE LongestStreakFrom_noReset(entries, k + 1, tempStreak, longestStreak)

\* The second loop of calculateStreak, from entry k on; the two counters are
\* computed before the next turn (t and m), as the loop body does
RECURSIVE LongestStreakFrom(_, _, _, _)
LongestStreakFrom(entries, k, tempStreak, longestStreak) ==
    IF k > Len(entries) THEN longestStreak
    ELSE IF entries[k].completed
         THEN CHOOSE r \in {LongestStreakFrom(entries, k + 1, t, m) :
                                t \in {tempStreak + 1},
                                m \in {Max(longestStreak, tempStreak + 1)}} : TRUE
         ELSE LongestStreakFrom(entries, k + 1, 0, longestStreak)

\* calculateStreak(completionHistory): the result, and the caller's array as
\* the call leaves it (the sort and the reverse work on a copy)
calculateStreak(completionHistory) ==
    IF ~completionHistory.isArray \/ Len(completionHistory.items) = 0
    THEN [currentStreak |-> 0, longestStreak |-> 0, history |-> completionHistory]
    ELSE LET sortedHistory == SortNewestFirst(completionHistory.items)
         IN  [currentStreak |-> CurrentStreakFrom(sortedHistory, 1, 0),
              longestStreak |-> LongestStreakFrom(Reverse(sortedHistory), 1, 0, 0),
              history |-> completionHistory]

\* Completion histories with distinct dates, in any order
Histories ==
    LET entries == {Entry(d, c) : d \in 0..MaxHistory, c \in BOOLEAN}
    IN  {h \in UNION {[1..n -> entries] : n \in 0..MaxHistory} :
            \A j, k \in 1..Len(h) : h[j].date = h[k].date => j = k}

\* calculateWeeklyCompletionRate(completionHistory) called at this tick with
\* weeksBack = 4: an entry counts when the midnight of its date is not before
\* the instant four weeks ago
calculateWeeklyCompletionRate(completionHistory, tick) ==
    IF ~completionHistory.isArray \/ Len(completionHistory.items) = 0 THEN 0
    ELSE LET weeksAgo == tick - 4 * 7 * 2
             Recent(entry) == 2 * entry.date >= weeksAgo
             recentEntries == SelectSeq(completionHistory.items, Recent)
         IN  IF Len(recentEntries) = 0 THEN 0
             ELSE RoundPercent(CompletedCount(recentEntries), Len(recentEntries))

\* The sums (completionRate, weeklyRate, streak bonus) that are a half in exact
\* arithmetic and that the double arithmetic of 0.4, 0.3 and 0.3 leaves just
\* under it, so that Math.round takes them down
SumJustUnderHalf ==
    { <<1, 57, 0>>, <<1, 57, 10>>, <<1, 57, 20>>, <<1, 57, 30>>, <<1, 62, 5>>, <<1, 62, 15>>,
      <<1, 62, 25>>, <<1, 67, 0>>, <<1, 67, 10>>, <<1, 67, 20>>, <<1, 67, 30>>, <<1, 72, 5>>,
      <<1, 72, 15>>, <<1, 72, 25>>, <<1, 77, 0>>, <<1, 77, 10>>, <<1, 77, 20>>, <<1, 82, 5>>,
      <<1, 82, 15>>, <<1, 87, 0>>, <<1, 87, 10>>, <<1, 92, 5>>, <<1, 97, 0>>, <<3, 96, 5>> }

WeightedScore_heavyWeekly(completionRate, weeklyRate, currentStreak) ==
    (4 * completionRate + 6 * weeklyRate + 3 * Min(currentStreak * 5, 30) + 5) \div 10

\* Math.round(completionRate * 0.4 + weeklyRate * 0.3 + Math.min(currentStreak * 5, 30) * 0.3)
WeightedScore(completionRate, weeklyRate, currentStreak) ==
    LET bonus == Min(currentStreak * 5, 30)
        tenths == 4 * completionRate + 3 * weeklyRate + 3 * bonus
    IN  IF <<completionRate, weeklyRate, bonus>> \in SumJustUnderHalf
        THEN tenths \div 10
        ELSE (tenths + 5) \div 10

\* The rating of a score
Rating(score) ==
    IF score >= 90 THEN "Excellent"
    ELSE IF score >= 75 THEN "Great"
    ELSE IF score >= 60 THEN "Good"
    ELSE IF score >= 40 THEN "Fair"
    ELSE "Needs Improvement"

\* calculateConsistencyScore(habit) called at this tick; a habit without a
\* completionHistory carries NotAnArray
calculateConsistencyScore(habit, tick) ==
    IF ~habit.present \/ ~habit.completionHistory.isArray
       \/ Len(habit.completionHistory.items) = 0
    THEN [score |-> 0, rating |-> "No Data"]
    ELSE LET currentStreak == calculateStreak(habit.completionHistory).currentStreak
             completionRate == calculateCompletionPercentage(habit)
             weeklyRate == calculateWeeklyCompletionRate(habit.completionHistory, tick)
             score == WeightedScore(completionRate, weeklyRate, currentStreak)
         IN  [score |-> score, rating |-> Rating(score)]

\* The habits handed to calculateConsistencyScore: none, one without a
\* history, and every pairing of counters with a history
ScoredHabits ==
    { [present |-> FALSE, completedDays |-> 0, totalDays |-> 0, completionHistory |-> NotAnArray],
      [present |-> TRUE, completedDays |-> 1, totalDays |-> 1, completionHistory |-> NotAnArray] }
    \cup { [present |-> TRUE, completedDays |-> c, totalDays |-> t,
            completionHistory |-> ArrayValue(h)] :
              c \in 0..MaxDays, t \in {0, 1, MaxDays}, h \in Histories }

\* The instants of the calls: the dates of the histories are all within the
\* last four weeks at the first, date 0 is older than that at the second
ScoreTicks == {2 * MaxHistory, 4 * 7 * 2 + 2}

----------------------------------------------------------------------------
(* achievementSystem.js *)

\* The ids of ACHIEVEMENTS, in the order Object.values gives them
ACHIEVEMENTS ==
    <<"first_steps", "week_warrior", "consistency_champion", "early_bird", "month_master",
      "perfectionist", "habit_collector", "streak_legend", "dedication_master", "night_owl">>

\* achievement.condition(userStats) of the achievement with this id
Condition(id, userStats) ==
    CASE id = "first_steps" -> userStats.totalCompletions >= 1
      [] id = "week_warrior" -> userStats.longestStreak >= 7
      [] id = "consistency_champion" -> userStats.overallCompletionRate >= 80
      [] id = "early_bird" -> userStats.earlyCompletions >= 10
      [] id = "month_master" -> userStats.longestStreak >= 30
      [] id = "perfectionist" -> userStats.perfectWeeks >= 1
      [] id = "habit_collector" -> userStats.totalHabits >= 5
      [] id = "streak_legend" -> userStats.longestStreak >= 100
      [] id = "dedication_master" -> userStats.totalCompletions >= 100
      [] id = "night_owl" -> userStats.lateCompletions >= 10

\* parseInt(habit.targetTime.split(':')[0]), -1 for a habit without targetTime
TargetHour(habit) == IF "targetHour" \in DOMAIN habit THEN habit.targetHour ELSE -1

\* The statistics before any habit is counted
ZeroStats ==
    [totalHabits |-> 0, totalCompletions |-> 0, longestStreak |-> 0, currentStreak |-> 0,
     overallCompletionRate |-> 0, perfectWeeks |-> 0, earlyCompletions |-> 0,
     lateCompletions |-> 0, totalDays |-> 0]

\* One round of the forEach of calculateUserStats
CountHabit(acc, habit) ==
    LET history == habit.completionHistory
        streakData == calculateStreak(ArrayValue(history))
        recentWeek == SubSeq(history, Len(history) - 6, Len(history))
        perfect == Len(history) >= 7 /\ \A k \in 1..7 : recentWeek[k].completed
        hour == TargetHour(habit)
    IN  [acc EXCEPT !.totalCompletions = @ + habit.completedDays,
                    !.totalDays = @ + habit.totalDays,
                    !.longestStreak = Max(@, streakData.longestStreak),
                    !.currentStreak = Max(@, streakData.currentStreak),
                    !.perfectWeeks = IF perfect THEN @ + 1 ELSE @,
                    !.earlyCompletions = IF hour >= 0 /\ hour < 9
                                         THEN @ + habit.completedDays ELSE @,
                    !.lateCompletions = IF hour >= 20 THEN @ + habit.completedDays ELSE @]

RECURSIVE CountHabitsFrom(_, _, _)
CountHabitsFrom(habits, k, acc) ==
    IF k > Len(habits) THEN acc
    ELSE CountHabitsFrom(habits, k + 1, CountHabit(acc, habits[k]))

\* calculateUserStats(habits); totalDays is the local the rate is taken from
calculateUserStats(habits) ==
    IF Len(habits) = 0 THEN ZeroStats
    ELSE LET acc == CountHabitsFrom(habits, 1, ZeroStats)
         IN  [acc EXCEPT !.totalHabits = Len(habits),
                         !.overallCompletionRate =
                             IF acc.totalDays > 0
                             THEN RoundPercent(acc.totalCompletions, acc.totalDays)
                             ELSE 0]

RECURSIVE CheckFrom_pushAll(_, _, _, _)
CheckFrom_pushAll(userStats, currentAchievements, k, found) ==
    IF k > Len(ACHIEVEMENTS) THEN found
    ELSE CheckFrom_pushAll(userStats, currentAchievements, k + 1,
             IF Condition(ACHIEVEMENTS[k], userStats)
             THEN [allUnlocked |-> Append(found.allUnlocked, ACHIEVEMENTS[k]),
                   newAchievements |-> Append(found.newAchievements, ACHIEVEMENTS[k])]
             ELSE found)

\* The forEach of checkAchievements, from catalog entry k on; an achievement
\* pushed to newAchievements is written as its id
RECURSIVE CheckFrom(_, _, _, _)
CheckFrom(userStats, currentAchievements, k, found) ==
    IF k > Len(ACHIEVEMENTS) THEN found
    ELSE CheckFrom(userStats, currentAchievements, k + 1,
             IF Condition(ACHIEVEMENTS[k], userStats)
             THEN [allUnlocked |-> Append(found.allUnlocked, ACHIEVEMENTS[k]),
                   newAchievements |->
                       IF ~InSeq(ACHIEVEMENTS[k], currentAchievements)
                       THEN Append(found.newAchievements, ACHIEVEMENTS[k])
                       ELSE found.newAchievements]
             ELSE found)

\* checkAchievements(habits, currentAchievements)
checkAchievements(habits, currentAchievements) ==
    LET userStats == calculateUserStats(habits)
        found == CheckFrom(userStats, currentAchievements, 1,
                           [allUnlocked |-> <<>>, newAchievements |-> <<>>])
    IN  [newAchievements |-> found.newAchievements, allUnlocked |-> found.allUnlocked,
         userStats |-> userStats]

\* A habit with a history of n completed days and counters to match
StreakHabit(id, n) ==
    Habit(id, <<"s">>, "daily", "string", 0, n, n, [k \in 1..n |-> Entry(k - 1, TRUE)], TRUE)

\* A habit known by its counters and target hour only
CounterHabit(id, completedDays, totalDays, targetHour) ==
    [Habit(id, <<"c">>, "daily", "string", 0, completedDays, totalDays, <<>>, FALSE)
        EXCEPT !.createdAt = @] @@ [targetHour |-> targetHour]

\* Collections handed to checkAchievements
StatsCollections ==
    { <<>>,
      <<SteadyHabit>>,
      <<SteadyHabit, StaleHabit>>,
      <<StreakHabit("w", 7)>>,
      <<StreakHabit("m", 30), CounterHabit("n", 0, 30, 21)>>,
      <<CounterHabit("e", 10, 20, 8), CounterHabit("o", 12, 20, 20)>>,
      <<CounterHabit("d", 100, 120, -1)>>,
      [k \in 1..5 |-> CounterHabit(generateUUID(k), 0, 1, -1)] }

\* Already-unlocked ids handed to checkAchievements
UnlockedLists ==
    { <<>>, <<"first_steps">>, <<"consistency_champion", "first_steps">>,
      <<"habit_collector", "no_such_id">>, ACHIEVEMENTS }

----------------------------------------------------------------------------
(* dataSynchronizer.js: detectChanges *)

\* new Set(habits.map(h => h.id))
IdSet(habits) == {habits[k].id : k \in 1..Len(habits)}

\* habits.filter(h => !ids.has(h.id))
WithoutIds(habits, ids) ==
    LET Kept(h) == h.id \notin ids
    IN  SelectSeq(habits, Kept)

IsModified_noTotalDays(oldHabit, newHabit) ==
    \/ oldHabit.name # newHabit.name
    \/ oldHabit.isCompleted # newHabit.isCompleted
    \/ oldHabit.completedDays # newHabit.completedDays

\* The comparison of key fields
IsModified(oldHabit, newHabit) ==
    \/ oldHabit.name # newHabit.name
    \/ oldHabit.isCompleted # newHabit.isCompleted
    \/ oldHabit.completedDays # newHabit.completedDays
    \/ oldHabit.totalDays # newHabit.totalDays

\* newHabits.forEach(...) from habit k on: the entries pushed to changes.modified
RECURSIVE ModifiedFrom(_, _, _)
ModifiedFrom(oldHabits, newHabits, k) ==
    IF k > Len(newHabits) THEN <<>>
    ELSE LET newHabit == newHabits[k]
             found == findIndex(oldHabits, newHabit.id)     \* oldHabits.find(...)
         IN  (IF found > 0 /\ IsModified(oldHabits[found], newHabit)
              THEN <<[id |-> newHabit.id, old |-> oldHabits[found], new |-> newHabit]>>
              ELSE <<>>)
             \o ModifiedFrom(oldHabits, newHabits, k + 1)

\* detectChanges(oldHabits, newHabits): the changes, and the two arrays as the
\* call leaves them (filter, find and forEach only read them)
detectChanges(oldHabits, newHabits) ==
    LET added == WithoutIds(newHabits, IdSet(oldHabits))
        removed == WithoutIds(oldHabits, IdSet(newHabits))
        modified == ModifiedFrom(oldHabits, newHabits, 1)
    IN  [added |-> added, removed |-> removed, modified |-> modified,
         hasChanges |-> Len(added) > 0 \/ Len(removed) > 0 \/ Len(modified) > 0,
         summary |-> [addedCount |-> Len(added), removedCount |-> Len(removed),
                      modifiedCount |-> Len(modified),
                      totalChanges |-> Len(added) + Len(removed) + Len(modified)],
         oldHabits |-> oldHabits, newHabits |-> newHabits]

ChangeIds == {<<"a", "b", "c", "d">>[k] : k \in 1..MaxChanged}

\* A habit as first loaded, and the same habit after one field changed
BaseHabit(id) == Habit(id, <<"r">>, "daily", "string", 0, 1, 2, <<Entry(0, TRUE)>>, FALSE)

ChangedHabits(id) ==
    { BaseHabit(id),
      [BaseHabit(id) EXCEPT !.name = <<"n">>],
      [BaseHabit(id) EXCEPT !.isCompleted = TRUE],
      [BaseHabit(id) EXCEPT !.completedDays = 2],
      [BaseHabit(id) EXCEPT !.totalDays = 3],
      [BaseHabit(id) EXCEPT !.frequency = "weekly"] }

UniqueIds(habits) == \A j, k \in 1..Len(habits) : habits[j].id = habits[k].id => j = k

\* Collections in memory: habits as first loaded, ids unique
OldCollections ==
    {h \in UNION {[1..n -> {BaseHabit(id) : id \in ChangeIds}] : n \in 0..MaxChanged} :
        UniqueIds(h)}

\* Collections read from the store later, ids unique
NewCollections ==
    {h \in UNION {[1..n -> UNION {ChangedHabits(id) : id \in ChangeIds}] : n \in 0..MaxChanged} :
        UniqueIds(h)}

\* Sample habits for validateDataIntegrity: consistent counters, a history
\* that disagrees with a plausible counter, and a counter above totalDays
IntegrityProfiles ==
    { [completedDays |-> 1, totalDays |-> 2, history |-> <<Entry(0, TRUE), Entry(1, FALSE)>>],
      [completedDays |-> 0, totalDays |-> 3, history |-> <<Entry(0, TRUE), Entry(1, TRUE)>>],
      [completedDays |-> 3, totalDays |-> 1, history |-> <<Entry(0, TRUE), Entry(1, FALSE)>>],
      [completedDays |-> 3, totalDays |-> 1, history |-> <<Entry(0, TRUE), Entry(1, TRUE)>>] }

IntegrityIds == {"a", "b", ""}

\* Collections of up to MaxIntegrity habits, ids repeated or missing
IntegrityCollections ==
    UNION { { [k \in 1..n |-> Habit(ids[k], <<"r">>, "daily", "string", 0, p.completedDays,
                                    p.totalDays, p.history, FALSE)] :
                  ids \in [1..n -> IntegrityIds], p \in IntegrityProfiles } :
            n \in 1..MaxIntegrity }

InitCalc ==
    /\ now = 2
    /\ store = Null
    /\ uuidCount = 0
    /\ calls = 0
    /\ last = NoCall
    /\ SyncInit
    /\ UiInit
    /\ AchievementsInit
    /\ calc = NoCalc
    /\ tasks = [p \in TaskIds |-> NoTask]

CalcFrame == UNCHANGED <<now, store, uuidCount, calls, last, syncVars, uiVars, achVars, tasks>>

CalculateStreakCall ==
    /\ calc = NoCalc
    /\ \E completionHistory \in {NotAnArray} \cup {ArrayValue(h) : h \in Histories} :
        LET result == calculateStreak(completionHistory)
        IN  /\ calc' = [fn |-> "calculateStreak", arg |-> completionHistory,
                        out |-> result, again |-> calculateStreak(result.history)]
            /\ CalcFrame

CalculateCompletionPercentageCall ==
    /\ calc = NoCalc
    /\ \E present \in BOOLEAN, completedDays \in 0..MaxDays, totalDays \in 0..MaxDays :
        LET habit == [present |-> present, completedDays |-> completedDays,
                      totalDays |-> totalDays]
        IN  /\ calc' = [fn |-> "calculateCompletionPercentage", arg |-> habit,
                        out |-> calculateCompletionPercentage(habit),
                        again |-> calculateCompletionPercentage(
                                      [habit EXCEPT !.completedDays = @ + 1])]
            /\ CalcFrame

CheckAchievementsCall ==
    /\ calc = NoCalc
    /\ \E habits \in StatsCollections, currentAchievements \in UnlockedLists :
        LET result == checkAchievements(habits, currentAchievements)
        IN  /\ calc' = [fn |-> "checkAchievements",
                        arg |-> [habits |-> habits, current |-> currentAchievements],
                        out |-> result,
                        again |-> checkAchievements(habits,
                                                    checkAchievements(habits, <<>>).allUnlocked)]
            /\ CalcFrame

CalculateConsistencyScoreCall ==
    /\ calc = NoCalc
    /\ \E habit \in ScoredHabits, tick \in ScoreTicks :
        /\ calc' = [fn |-> "calculateConsistencyScore",
                    arg |-> [habit |-> habit, tick |-> tick],
                    out |-> calculateConsistencyScore(habit, tick),
                    again |-> calculateWeeklyCompletionRate(habit.completionHistory, tick)]
        /\ CalcFrame

DetectChangesCall ==
    /\ calc = NoCalc
    /\ \E oldHabits \in OldCollections, newHabits \in NewCollections :
        /\ calc' = [fn |-> "detectChanges",
                    arg |-> [oldHabits |-> oldHabits, newHabits |-> newHabits],
                    out |-> detectChanges(oldHabits, newHabits),
                    again |-> detectChanges(newHabits, newHabits)]
        /\ CalcFrame

\* validateDataIntegrity(habits) followed by fixDataIntegrity(habits, issues),
\* as performFullSync chains them
FixDataIntegrityCall ==
    \E habits \in IntegrityCollections :
        LET issues == validateDataIntegrity(habits)
            fixed == fixDataIntegrity(habits, issues, uuidCount)
        IN  /\ fixed.uuids <= MaxFixUuid
            /\ calc' = [fn |-> "fixDataIntegrity",
                        arg |-> [habits |-> habits, issues |-> issues],
                        out |-> fixed.habits,
                        again |-> validateDataIntegrity(fixed.habits)]
            /\ uuidCount' = fixed.uuids
            /\ UNCHANGED <<now, store, calls, last, syncVars, uiVars, achVars, tasks>>

\* The caller takes the result; the next call starts from there
CalcReturn ==
    /\ calc # NoCalc
    /\ calc' = NoCalc
    /\ CalcFrame

NextCalc ==
    \/ CalcReturn
    \/ CalculateStreakCall
    \/ CalculateCompletionPercentageCall
    \/ CheckAchievementsCall
    \/ DetectChangesCall
    \/ CalculateConsistencyScoreCall

SpecCalc == InitCalc /\ [][NextCalc]_vars

NextIntegrity == FixDataIntegrityCall

SpecIntegrity == InitCalc /\ [][NextIntegrity]_vars

\* The number of completed entries at the end of a date-ascending history
RECURSIVE TrailingRun(_)
TrailingRun(ascending) ==
    IF ascending = <<>> \/ ~ascending[Len(ascending)].completed THEN 0
    ELSE 1 + TrailingRun(SubSeq(ascending, 1, Len(ascending) - 1))

\* The longest stretch of completed entries in a date-ascending history
LongestRun(ascending) ==
    LET runs == {<<j, k>> \in (1..Len(ascending)) \X (1..Len(ascending)) :
                    j <= k /\ \A n \in j..k : ascending[n].completed}
    IN  IF runs = {} THEN 0
        ELSE CHOOSE n \in 1..Len(ascending) :
                /\ \E r \in runs : r[2] - r[1] + 1 = n
                /\ \A r \in runs : r[2] - r[1] + 1 <= n

\* C14: for a non-empty history, currentStreak is the number of consecutive
\* completed entries counted from the newest entry backwards in date order.
C14_CurrentStreakCountsBack ==
    (calc.fn = "calculateStreak" /\ calc.arg.isArray /\ calc.arg.items # <<>>)
    => calc.out.currentStreak = TrailingRun(SortByDate(calc.arg.items))

\* C15: for a history with distinct dates in any order, longestStreak is the
\* longest run of completed entries in date-ascending order, and 0 for an
\* empty or non-array input; a second call gives the same result and the
\* input is left as it was.
C15_LongestStreak ==
    calc.fn = "calculateStreak"
    => /\ calc.out.longestStreak = IF calc.arg.isArray
                                   THEN LongestRun(SortByDate(calc.arg.items))
                                   ELSE 0
       /\ calc.again = calc.out
       /\ calc.out.history = calc.arg

\* A history out of order, with a date gap inside its longest run
C15_Witness ==
    /\ calc.fn = "calculateStreak"
    /\ calc.arg.items = <<Entry(1, TRUE), Entry(3, TRUE), Entry(0, FALSE)>>
    /\ calc.out.longestStreak = 2

\* C16: for non-negative completedDays and totalDays, also with completedDays
\* above totalDays, calculateCompletionPercentage gives an integer in 0..100,
\* 0 when totalDays is 0 or the habit is absent, and does not go down when
\* completedDays goes up by one.
C16_PercentageBounded ==
    calc.fn = "calculateCompletionPercentage"
    => /\ calc.out \in 0..100
       /\ (~calc.arg.present \/ calc.arg.totalDays = 0) => calc.out = 0
       /\ calc.out <= calc.again

\* More completed days than total days
C16_Witness ==
    /\ calc.fn = "calculateCompletionPercentage"
    /\ calc.arg.present
    /\ calc.arg.completedDays > calc.arg.totalDays
    /\ calc.arg.totalDays > 0
    /\ calc.out = 100

\* C13: allUnlocked is the list, in catalog order, of the ids whose condition
\* holds on calculateUserStats(habits), whatever the already-unlocked list;
\* newAchievements is those of them not already unlocked, in catalog order;
\* so checking again with allUnlocked as the unlocked list gives nothing new.
C13_CheckAchievements ==
    calc.fn = "checkAchievements"
    => LET userStats == calculateUserStats(calc.arg.habits)
           Holds(id) == Condition(id, userStats)
           IsNew(id) == ~InSeq(id, calc.arg.current)
       IN  /\ calc.out.allUnlocked = SelectSeq(ACHIEVEMENTS, Holds)
           /\ calc.out.newAchievements = SelectSeq(SelectSeq(ACHIEVEMENTS, Holds), IsNew)
           /\ calc.again.newAchievements = <<>>

\* A week of completed days checked with first_steps already unlocked
C13_Witness ==
    /\ calc.fn = "checkAchievements"
    /\ calc.arg.current = <<"first_steps">>
    /\ calc.out.allUnlocked = <<"first_steps", "week_warrior", "consistency_champion",
                                "perfectionist">>
    /\ calc.out.newAchievements = <<"week_warrior", "consistency_champion", "perfectionist">>

\* Ids of the collection no habit before place k carries
FirstOccurrence(habits, k) == findIndex(habits, habits[k].id) = k

\* C17: fixDataIntegrity, given validateDataIntegrity's issues for a collection
\* with repeated ids, keeps the id of the first occurrence of every id, wherever
\* it stands, and hands a fresh id to each later occurrence and to nobody else.
C17_FirstOccurrenceKeepsId ==
    (/\ calc.fn = "fixDataIntegrity"
     /\ \A k \in 1..Len(calc.arg.habits) : calc.arg.habits[k].id # "")
    => \A k \in 1..Len(calc.arg.habits) :
          IF FirstOccurrence(calc.arg.habits, k)
          THEN calc.out[k].id = calc.arg.habits[k].id
          ELSE /\ \A j \in 1..Len(calc.arg.habits) : calc.out[k].id # calc.arg.habits[j].id
               /\ \A j \in 1..Len(calc.out) : j # k => calc.out[j].id # calc.out[k].id

\* C18: every habit whose completedDays is more than 1 away from the number of
\* completed history entries comes back from fixDataIntegrity with completedDays
\* equal to that number.
C18_MismatchIsRepaired ==
    calc.fn = "fixDataIntegrity"
    => \A k \in 1..Len(calc.arg.habits) :
          Abs(CompletedCount(calc.arg.habits[k].completionHistory)
              - calc.arg.habits[k].completedDays) > 1
          => calc.out[k].completedDays = CompletedCount(calc.out[k].completionHistory)

\* C27: one pass of repair is enough: validating what fixDataIntegrity returns
\* for a collection and its own validation issues reports no duplicate_ids,
\* missing_id, invalid_frequency or inconsistent_progress issue, and no issue
\* that the validation of the collection did not report.
C27_RepairConverges ==
    calc.fn = "fixDataIntegrity"
    => \A k \in 1..Len(calc.again) :
          /\ calc.again[k].type \notin {"duplicate_ids", "missing_id", "invalid_frequency",
                                        "inconsistent_progress"}
          /\ InSeq(calc.again[k], calc.arg.issues)

\* What getHabits finds unusable: nothing stored, a text that does not parse,
\* or an envelope that validateStoredData rejects
Unusable(item) ==
    \/ item.kind = "null"
    \/ item.kind = "corrupt"
    \/ item.kind = "json" /\ ~validateStoredData(item.value)

\* C19: every Habit Store call answers its caller whatever the storage does:
\* getHabits gives the empty list when the read is rejected, nothing is stored,
\* the text does not parse or the envelope fails validation; a mutating
\* operation whose write is rejected gives false (null for addHabit).
C19_StorageFailuresAreAnswered ==
    /\ last.ok \in BOOLEAN
    /\ (last.op = "getHabits" /\ (~last.ok \/ Unusable(store))) => last.ret = <<>>
    /\ (last.op \in Mutations /\ last.writeFailed) => ~last.ok
    /\ (last.op = "addHabit" /\ last.writeFailed) => last.ret = <<>>

\* saveHabits was handed a valid collection and the write was rejected
C19_Witness ==
    /\ last.op = "saveHabits"
    /\ last.writeFailed
    /\ validateStoredData(Envelope(last.arg, last.at))
    /\ ~last.ok

\* The Habit Store with nothing stored yet
InitEmpty ==
    /\ now = 2
    /\ store = Null
    /\ uuidCount = 0
    /\ calls = 0
    /\ last = NoCall
    /\ SyncInit
    /\ UiInit
    /\ AchievementsInit
    /\ calc = NoCalc
    /\ tasks = [p \in TaskIds |-> NoTask]

SpecEmpty == InitEmpty /\ [][Next]_vars

\* C20: starting from an empty store, whatever Habit Store operations are
\* called, every habit of the persisted collection has an id and no two
\* habits share one.
C20_IdsPresentAndDistinct ==
    \A i, j \in 1..Len(StoredHabits) :
        /\ StoredHabits[i].id # ""
        /\ i # j => StoredHabits[i].id # StoredHabits[j].id

\* completionHistory has an entry for the date of this tick with completed true
CompletedOn(habit, tick) ==
    \E k \in 1..Len(habit.completionHistory) :
        /\ habit.completionHistory[k].date = DateOf(tick)
        /\ habit.completionHistory[k].completed

\* C21: while no store operation is in flight, also after the date has moved
\* on, a persisted habit has isCompleted true exactly when its history holds a
\* completed entry for the current date. Stated for the habits the last
\* successful updateHabitCompletion or recalculateAllHabitsProgress wrote.
C21_IsCompletedReflectsToday ==
    /\ (last.op = "updateHabitCompletion" /\ last.ok)
       => \A i \in 1..Len(StoredHabits) :
             StoredHabits[i].id = last.id
             => (StoredHabits[i].isCompleted <=> CompletedOn(StoredHabits[i], now))
    /\ (last.op = "recalculateAllHabitsProgress" /\ last.ok)
       => \A i \in 1..Len(StoredHabits) :
             StoredHabits[i].isCompleted <=> CompletedOn(StoredHabits[i], now)

\* The entries of a history for the dates before that of this tick
PastEntries(history, tick) ==
    LET Past(e) == e.date < DateOf(tick)
    IN  SelectSeq(history, Past)

\* C26: addHabit, updateHabitCompletion and recalculateAllHabitsProgress never
\* remove or replace the other habits: whatever envelope is stored and
\* whatever the storage read does, every habit persisted before the call is
\* persisted after it with the same id, name, frequency, createdAt and history
\* entries for past dates.
C26_OtherHabitsAreKept ==
    [][(IsCall /\ last'.op \in {"addHabit", "updateHabitCompletion",
                                "recalculateAllHabitsProgress"})
       => \A i \in 1..Len(StoredHabits) :
             \E j \in 1..Len(StoredHabits') :
                 /\ StoredHabits'[j].id = StoredHabits[i].id
                 /\ StoredHabits'[j].name = StoredHabits[i].name
                 /\ StoredHabits'[j].frequency = StoredHabits[i].frequency
                 /\ StoredHabits'[j].createdAt = StoredHabits[i].createdAt
                 /\ PastEntries(StoredHabits'[j].completionHistory, now)
                       = PastEntries(StoredHabits[i].completionHistory, now)]_vars

\* The members of a sequence
Range(seq) == {seq[k] : k \in 1..Len(seq)}

\* C22: for collections with unique ids, detectChanges gives added = the new
\* habits whose id the old collection lacks, removed = the old habits whose id
\* the new one lacks, modified = the ids in both whose name, isCompleted,
\* completedDays or totalDays differ; hasChanges says whether any of the three
\* is non-empty, totalChanges is the sum of the three counts, a collection
\* compared with itself has no changes, and both arguments and the store are
\* left as they were.
C22_DetectChanges ==
    calc.fn = "detectChanges"
    => LET old == calc.arg.oldHabits
           new == calc.arg.newHabits
           both == {<<j, k>> \in (1..Len(old)) \X (1..Len(new)) : old[j].id = new[k].id}
           differ == {p \in both :
                         \E f \in {"name", "isCompleted", "completedDays", "totalDays"} :
                             old[p[1]][f] # new[p[2]][f]}
       IN  /\ Range(calc.out.added) = {h \in Range(new) : \A j \in 1..Len(old) : old[j].id # h.id}
           /\ Len(calc.out.added) = Cardinality(Range(calc.out.added))
           /\ Range(calc.out.removed) = {h \in Range(old) : \A k \in 1..Len(new) : new[k].id # h.id}
           /\ Len(calc.out.removed) = Cardinality(Range(calc.out.removed))
           /\ Range(calc.out.modified)
                  = {[id |-> new[p[2]].id, old |-> old[p[1]], new |-> new[p[2]]] : p \in differ}
           /\ Len(calc.out.modified) = Cardinality(differ)
           /\ calc.out.hasChanges <=> (calc.out.added # <<>> \/ calc.out.removed # <<>>
                                       \/ calc.out.modified # <<>>)
           /\ calc.out.summary.totalChanges
                  = Len(calc.out.added) + Len(calc.out.removed) + Len(calc.out.modified)
           /\ ~calc.again.hasChanges
           /\ calc.out.oldHabits = old /\ calc.out.newHabits = new
           /\ store = Null

\* A comparison that finds an added, a removed and a modified habit at once is
\* not possible with MaxChanged habits; this one finds a removed habit and one
\* whose totalDays alone changed
C22_Witness ==
    /\ calc.fn = "detectChanges"
    /\ Len(calc.out.removed) = 1
    /\ Len(calc.out.modified) = 1
    /\ calc.out.modified[1].old.totalDays # calc.out.modified[1].new.totalDays
    /\ calc.out.summary.totalChanges = 2

\* The percentages of the sync_progress events of a sequence, in order
RECURSIVE Progress(_)
Progress(events) ==
    IF events = <<>> THEN <<>>
    ELSE (IF Head(events).event = "sync_progress" THEN <<Head(events).progress>> ELSE <<>>)
         \o Progress(Tail(events))

Terminal == {"sync_completed", "sync_failed"}

\* C23: the events of an invocation that passed the guard are one
\* sync_started, then sync_progress events with strictly increasing
\* percentages among 25, 50, 75, 100 (all four in a completed sync with
\* recalculate, the last three without), then exactly one terminal event,
\* sync_completed or sync_failed; sync_completed comes right after the 100%
\* event; every event reaches every subscriber although one of them throws.
C23_EventOrder ==
    \A p \in SyncIds :
        LET events == sync[p].events
            progress == Progress(events)
        IN  /\ (Running(p) \/ sync[p].result \in {"success", "failed"})
               => /\ events # <<>>
                  /\ events[1].event = "sync_started"
            /\ \A k \in 2..Len(events) : events[k].event # "sync_started"
            /\ \A k \in 1..Len(progress) : progress[k] \in {25, 50, 75, 100}
            /\ \A j, k \in 1..Len(progress) : j < k => progress[j] < progress[k]
            /\ \A k \in 1..Len(events) : events[k].event \in Terminal => k = Len(events)
            /\ Running(p) => events[Len(events)].event \notin Terminal
            /\ sync[p].result = "success"
               => /\ events[Len(events)].event = "sync_completed"
                  /\ progress = IF sync[p].recalculate THEN <<25, 50, 75, 100>>
                                ELSE <<50, 75, 100>>
            /\ sync[p].result = "failed" => events[Len(events)].event = "sync_failed"
            /\ \A k \in 1..Len(events) :
                  events[k].event = "sync_completed"
                  => k > 1 /\ events[k - 1].event = "sync_progress"
                           /\ events[k - 1].progress = 100
            /\ \A k \in 1..Len(events) : events[k].to = Listeners

\* One invocation completed with recalculate and one failed, with a
\* subscriber that throws on every event
C23_Witness ==
    /\ Throwing # {}
    /\ \E p, q \in SyncIds :
          /\ sync[p].result = "success" /\ sync[p].recalculate
          /\ Len(sync[p].events) = 6
          /\ sync[q].result = "failed"

\* Invocation p is the only one that has been called
OnlyWriter(p) == \A q \in SyncIds \ {p} : sync[q].pc = "idle"

\* C24: when performFullSync returns success after validateDataIntegrity
\* reported an issue, and nothing else wrote to the store, the persisted
\* collection is the repaired collection fixDataIntegrity returned.
C24_RepairIsPersisted ==
    \A p \in SyncIds :
        (sync[p].result = "success" /\ sync[p].issues # <<>> /\ OnlyWriter(p))
        => StoredHabits = [i \in 1..Len(sync[p].fixed) |-> JsonHabit(sync[p].fixed[i])]

\* C28: when performFullSync returns success and nothing else wrote to the
\* store, the habits of the returned data are the persisted collection, also
\* when the sync repaired integrity issues.
C28_ReturnedHabitsArePersisted ==
    \A p \in SyncIds :
        (sync[p].result = "success" /\ OnlyWriter(p)) => sync[p].habits = StoredHabits

\* C30: calculateConsistencyScore gives an integer score from 0 to 79, so the
\* rating is never 'Excellent'; the rating is 'No Data' exactly when there is
\* no habit or its history is empty, and otherwise it follows the bands
\* >= 75 Great, >= 60 Good, >= 40 Fair, else Needs Improvement.
C30_ConsistencyScore ==
    calc.fn = "calculateConsistencyScore"
    => LET habit == calc.arg.habit
           noData == \/ ~habit.present
                     \/ ~habit.completionHistory.isArray
                     \/ habit.completionHistory.items = <<>>
       IN  /\ calc.out.score \in 0..79
           /\ calc.out.rating # "Excellent"
           /\ calc.out.rating = "No Data" <=> noData
           /\ ~noData => calc.out.rating =
                  (IF calc.out.score >= 75 THEN "Great"
                   ELSE IF calc.out.score >= 60 THEN "Good"
                   ELSE IF calc.out.score >= 40 THEN "Fair"
                   ELSE "Needs Improvement")

\* A habit completed on every day, also on the last one, scores 72
C30_Witness ==
    /\ calc.fn = "calculateConsistencyScore"
    /\ calc.arg.habit.present
    /\ Len(calc.arg.habit.completionHistory.items) = MaxHistory
    /\ calc.again = 100
    /\ calc.out = [score |-> 72, rating |-> "Good"]

====
